---- MODULE Spec2Model ----
(***************************************************************************)
(* ModEM mesh builder (mtpy.modeling.modem.Model) and its padding helpers  *)
(* (mtpy.utils.mesh_tools).                                                *)
(*                                                                         *)
(* Lengths are integers counted in metres.  The source computes in         *)
(* floating point; the operators below compute the same real-valued        *)
(* expressions exactly: a rational is a numerator/denominator pair, a      *)
(* root r = (P/Q)^(1/n) is never evaluated but compared with an integer t  *)
(* through r < t  <=>  P/Q < t^n.  A stretch factor is the rational        *)
(* [p, q] standing for p/q (1.2 is [p |-> 6, q |-> 5]).                    *)
(***************************************************************************)
EXTENDS Integers, Sequences, FiniteSets, TLC

VARIABLES
    station_locations,  \* Model.station_locations: [defined, rel_east, rel_north]
    cfg,                \* the configuration attributes of Model.__init__
    grid_east,          \* Model.grid_east: None or sequence of line positions
    grid_north,         \* Model.grid_north
    grid_z,             \* Model.grid_z
    grid_center,        \* Model.grid_center: None (not assigned yet) or <<north, east, z>>
    res_model,          \* Model.res_model: NoVolume or [shape, val]
    rotation_angle,     \* Model.rotation_angle: None until read_model_file assigns it
    model_file,         \* contents of the file at model_fn: None or a sequence of lines
    outcome,            \* what the last operation did: its name and "ok" or the error
    written,            \* history: res_model as it was when model_file was written
    ops,                \* history: the number of operations performed so far
    surface_dict,       \* Model.surface_dict: [defined, keys, data]
    loop,               \* make_log_increasing_array in progress: its locals
    args,               \* arguments of the last mesh_tools call
    result              \* value returned by the last mesh_tools call

vars == << station_locations, cfg, grid_east, grid_north, grid_z, grid_center,
           res_model, rotation_angle, model_file, outcome, written, ops, surface_dict,
           loop, args, result >>

\* An attribute that is None, or was never assigned, is the empty sequence; an
\* optional number x is << x >>.
None == << >>

Some(x) == << x >>

-----------------------------------------------------------------------------
(* Exact arithmetic *)

Abs(x) == IF x < 0 THEN -x ELSE x

Max2(a, b) == IF a >= b THEN a ELSE b

Min2(a, b) == IF a <= b THEN a ELSE b

RECURSIVE SumSeq(_)
SumSeq(s) == IF s = << >> THEN 0 ELSE s[1] + SumSeq(Tail(s))

RECURSIVE MinSeq(_)
MinSeq(s) == IF Len(s) = 1 THEN s[1] ELSE Min2(s[1], MinSeq(Tail(s)))

RECURSIVE MaxSeq(_)
MaxSeq(s) == IF Len(s) = 1 THEN s[1] ELSE Max2(s[1], MaxSeq(Tail(s)))

Reverse(s) == [i \in 1..Len(s) |-> s[Len(s) + 1 - i]]

RECURSIVE Gcd(_, _)
Gcd(a, b) == IF b = 0 THEN a ELSE Gcd(b, a % b)

\* numpy rint of n/d (d > 0): nearest integer, a tie goes to the even neighbour
RoundHalfEven(n, d) ==
    LET f == n \div d
        r == n % d
    IN  IF 2 * r < d THEN f
        ELSE IF 2 * r > d THEN f + 1
        ELSE IF f % 2 = 0 THEN f ELSE f + 1

\* np.round(n/d, -k) with unit = 10^k
RoundTo(n, d, unit) == unit * RoundHalfEven(n, d * unit)

\* np.round(x, -2) of an integer x
Round100(x) == RoundTo(x, 1, 100)

\* t^n > F and t^n = F for t >= 1, F >= 0, by repeated division (no large powers)
RECURSIVE PowGT(_, _, _)
PowGT(t, n, F) == IF n = 0 THEN 1 > F ELSE PowGT(t, n - 1, F \div t)

RECURSIVE PowEQ(_, _, _)
PowEQ(t, n, F) == IF n = 0 THEN F = 1 ELSE F % t = 0 /\ PowEQ(t, n - 1, F \div t)

\* a rational n/d (d > 0) in lowest terms
Rat(n, d) == [n |-> n \div Gcd(n, d), d |-> d \div Gcd(n, d)]

\* r^n = P/Q rounds to the m-th multiple of the unit or lower, where P/Q is
\* already divided by (unit/2)^n: r < unit*m + unit/2 <=> P/Q < (2m+1)^n; on
\* the tie an even m is taken
RootBelow(P, Q, n, m) ==
    \/ PowGT(2 * m + 1, n, P \div Q)
    \/ (PowEQ(2 * m + 1, n, P \div Q) /\ P % Q = 0 /\ m % 2 = 0)

\* an m that RootBelow accepts, found by doubling
RECURSIVE RootUpper(_, _, _, _)
RootUpper(P, Q, n, m) ==
    IF RootBelow(P, Q, n, m) THEN m ELSE RootUpper(P, Q, n, 2 * m + 1)

\* the least m in lo..hi that RootBelow accepts (it accepts hi, and every m
\* above one it accepts)
RECURSIVE RootSearch(_, _, _, _, _)
RootSearch(P, Q, n, lo, hi) ==
    IF lo = hi THEN lo
    ELSE IF RootBelow(P, Q, n, (lo + hi) \div 2)
    THEN RootSearch(P, Q, n, lo, (lo + hi) \div 2)
    ELSE RootSearch(P, Q, n, (lo + hi) \div 2 + 1, hi)

\* np.round(r, -k) for the root r >= 0 with r^(e1+e2) = a^e1 * b^e2, where a and b
\* are rationals [n, d], e1 + e2 >= 1 and unit = 10^k
RoundRootTo(a, e1, b, e2, unit) ==
    LET ga == Rat(2 * a.n, a.d * unit)
        gb == Rat(2 * b.n, b.d * unit)
        P == ga.n ^ e1 * gb.n ^ e2
        Q == ga.d ^ e1 * gb.d ^ e2
    IN  unit * RootSearch(P, Q, e1 + e2, 0, RootUpper(P, Q, e1 + e2, 0))

-----------------------------------------------------------------------------
(* mesh_tools: padding cell generators *)

\* sum_{j=0..i} p^j q^(i-j): q^i * (1 - (p/q)^(i+1)) / (1 - p/q)
RECURSIVE GeomSum(_, _, _)
GeomSum(p, q, i) == IF i = 0 THEN 1 ELSE q * GeomSum(p, q, i - 1) + p ^ i

\* exp_pad of get_padding_cells for index ii (0-based), num_cells >= 2:
\* round(cell_width*stretch*scaling^ii, -2), where
\* scaling^(num_cells-1) = max_distance/(cell_width*stretch)
exp_pad(cell_width, max_distance, num_cells, stretch, ii) ==
    RoundRootTo([n |-> cell_width * stretch.p, d |-> stretch.q], num_cells - 1 - ii,
                [n |-> max_distance, d |-> 1], ii, 100)

\* mult_pad of get_padding_cells for index ii (0-based)
mult_pad(cell_width, stretch, ii) ==
    RoundTo(cell_width * stretch.p * GeomSum(stretch.p, stretch.q, ii),
            stretch.q ^ (ii + 1), 100)

get_padding_cells(cell_width, max_distance, num_cells, stretch) ==
    [k \in 1..num_cells |->
        Max2(exp_pad(cell_width, max_distance, num_cells, stretch, k - 1),
             mult_pad(cell_width, stretch, k - 1))]

\* nodes of get_padding_from_stretch: around(cell_width * pad_stretch^i, -2)
stretch_nodes(cell_width, pad_stretch, num_cells) ==
    [k \in 1..num_cells |->
        RoundTo(cell_width * pad_stretch.p ^ (k - 1), pad_stretch.q ^ (k - 1), 100)]

get_padding_from_stretch(cell_width, pad_stretch, num_cells) ==
    LET nodes == stretch_nodes(cell_width, pad_stretch, num_cells)
    IN  [k \in 1..num_cells |-> SumSeq(SubSeq(nodes, 1, k))]

\* sample ii (0-based) of np.around(np.logspace(log10(lo), log10(hi), num), -2);
\* a single sample is lo
logspace100(lo, hi, num, ii) ==
    IF num = 1 THEN Round100(lo)
    ELSE RoundRootTo([n |-> lo, d |-> 1], num - 1 - ii, [n |-> hi, d |-> 1], ii, 100)

get_padding_cells2(cell_width, core_max, max_distance, num_cells) ==
    LET md == Max2(cell_width * num_cells, max_distance)
    IN  [k \in 1..num_cells |-> logspace100(core_max, md, num_cells, k - 1) - core_max]

StrictlyIncreasing(s) == \A i \in 1..(Len(s) - 1) : s[i] < s[i + 1]

-----------------------------------------------------------------------------
(* mesh_tools.make_log_increasing_array *)

\* the iteration ceiling of the shrink-and-retry loop
Ceiling == 1000000

\* max_cell_thickness after counter multiplications by increment_factor:
\* target_depth * increment_factor^counter, as a rational
max_cell_thickness(target_depth, increment_factor, counter) ==
    Rat(target_depth * increment_factor.p ^ counter, increment_factor.q ^ counter)

\* np.sum(log_z) > target_depth for
\* log_z = np.logspace(log10(z1_layer), log10(max_cell_thickness), num=n_layers),
\* n_layers <= 3: the samples are z1_layer alone, z1_layer and the maximum, or
\* these two and their geometric mean
sum_exceeds(z1_layer, target_depth, n_layers, increment_factor, counter) ==
    IF n_layers = 0 THEN 0 > target_depth
    ELSE IF n_layers = 1 THEN z1_layer > target_depth
    ELSE LET M == max_cell_thickness(target_depth, increment_factor, counter)
             \* (target_depth - z1_layer - M) * M.d
             R == (target_depth - z1_layer) * M.d - M.n
         IN  IF n_layers = 2 THEN R < 0
             ELSE R < 0 \/ z1_layer * M.n * M.d > R * R

\* counter after one more pass of the loop body.  With n_layers <= 1 log_z does
\* not depend on max_cell_thickness, so every pass up to the ceiling leaves the
\* same log_z and the same test: these passes are taken in one step
next_counter(n_layers, counter) ==
    IF n_layers <= 1 /\ counter < Ceiling THEN Ceiling + 1 ELSE counter + 1

\* a ceiling of no retries at all
over_ceiling_early(counter) == counter > 0

\* a loop that has no ceiling
over_ceiling_never(counter) == FALSE

\* if counter > 1e6: break
over_ceiling(counter) == counter > Ceiling

\* the array returned, by the arguments of the np.logspace call that made it
log_z_of(a, counter) ==
    [z1_layer |-> a.z1_layer, target_depth |-> a.target_depth,
     n_layers |-> a.n_layers, increment_factor |-> a.increment_factor,
     counter |-> counter]

\* len(log_z)
log_z_size(log_z) == log_z.n_layers

\* log_z[0] = 10**log10(z1_layer)
log_z_first(log_z) == log_z.z1_layer

\* log_z[i] < log_z[i+1] for every i: the samples of a log space increase
\* exactly when its last sample is greater than its first
log_z_increasing(log_z) ==
    \/ log_z.n_layers <= 1
    \/ LET M == max_cell_thickness(log_z.target_depth, log_z.increment_factor,
                                   log_z.counter)
       IN  M.n > log_z.z1_layer * M.d

-----------------------------------------------------------------------------
(* Model: node <-> grid properties *)

\* nodes_east / nodes_north / nodes_z getter: |grid[ii+1] - grid[ii]|
nodes_get(grid) ==
    IF grid = None THEN None
    ELSE [ii \in 1..(Len(grid) - 1) |-> Abs(grid[ii + 1] - grid[ii])]

\* a setter that sums nodes[0:ii+1] where the source sums nodes[0:ii]
nodes_set_horizontal_late(nodes) ==
    [k \in 1..(Len(nodes) + 1) |->
        IF k = Len(nodes) + 1 THEN SumSeq(nodes) \div 2
        ELSE (-SumSeq(nodes)) \div 2 + SumSeq(SubSeq(nodes, 1, k))]

\* nodes_east / nodes_north setter: grid lines centred on zero
nodes_set_horizontal(nodes) ==
    [k \in 1..(Len(nodes) + 1) |->
        IF k = Len(nodes) + 1 THEN SumSeq(nodes) \div 2
        ELSE (-SumSeq(nodes)) \div 2 + SumSeq(SubSeq(nodes, 1, k - 1))]

\* nodes_z setter: cumulative depth from zero
nodes_set_z(nodes) ==
    [k \in 1..(Len(nodes) + 1) |-> SumSeq(SubSeq(nodes, 1, k - 1))]

-----------------------------------------------------------------------------
(* Model.make_mesh *)

\* np.arange(start, stop, step) for step > 0
arange(start, stop, step) ==
    LET cnt == IF stop <= start THEN 0 ELSE -((start - stop) \div step)
    IN  [k \in 1..cnt |-> start + (k - 1) * step]

\* sorted(...)
RECURSIVE sorted(_)
sorted(s) ==
    IF s = << >> THEN << >>
    ELSE LET m == MinSeq(s)
             i == CHOOSE j \in 1..Len(s) : s[j] = m
         IN  << m >> \o sorted(SubSeq(s, 1, i - 1) \o SubSeq(s, i + 1, Len(s)))

\* a low edge rounded down to the hundred below
edge_low_outward(coords, pad_num, cell_size) ==
    100 * ((2 * MinSeq(coords) - 3 * pad_num * cell_size) \div 200)

\* west / south: np.round(min - pad_num*1.5*cell_size, -2)
edge_low(coords, pad_num, cell_size) ==
    RoundTo(2 * MinSeq(coords) - 3 * pad_num * cell_size, 2, 100)

\* east / north: np.round(max + pad_num*1.5*cell_size, -2)
edge_high(coords, pad_num, cell_size) ==
    RoundTo(2 * MaxSeq(coords) + 3 * pad_num * cell_size, 2, 100)

\* add_ew / add_ns
add_edge(low, high, cell_size) == ((high - low) % cell_size) \div 2

inner_east_of(west, east, cell_size) ==
    LET add_ew == add_edge(west, east, cell_size)
    IN  arange(west + add_ew - cell_size, east - add_ew + 2 * cell_size, cell_size)

inner_north_of(south, north, cell_size) ==
    LET add_ns == add_edge(south, north, cell_size)
    IN  arange(south + add_ns + cell_size, north - add_ns + 2 * cell_size, cell_size)

\* padding_east / padding_north for the configured pad_method
padding_of(pad_method, cell_size, ext, high, inner, pad, stretch) ==
    IF pad_method = "extent1"
    THEN get_padding_cells(cell_size, ext \div 2 - high, pad, stretch)
    ELSE IF pad_method = "extent2"
    THEN get_padding_cells2(cell_size, inner[Len(inner)], ext \div 2, pad)
    ELSE get_padding_from_stretch(cell_size, stretch, pad)

\* np.append(np.append(-1*padding[::-1] + inner.min(), inner), padding + inner.max())
join_grid(padding, inner) ==
    [k \in 1..Len(padding) |-> -Reverse(padding)[k] + MinSeq(inner)]
    \o inner
    \o [k \in 1..Len(padding) |-> padding[k] + MaxSeq(inner)]

\* np.where(abs(s - grid) < tol)[0]: the indices of the lines closer than tol
near_lines(grid, s, tol) == {k \in 1..Len(grid) : Abs(s - grid[k]) < tol}

\* one pass of the station loop body: move the first near line away from s
nudge(grid, s, tol) ==
    IF near_lines(grid, s, tol) = {} THEN grid
    ELSE LET node_index == CHOOSE k \in near_lines(grid, s, tol) :
                               \A j \in near_lines(grid, s, tol) : k <= j
         IN  IF s - grid[node_index] > 0
             THEN [grid EXCEPT ![node_index] = @ - tol]
             ELSE IF s - grid[node_index] < 0
             THEN [grid EXCEPT ![node_index] = @ + tol]
             ELSE grid

\* the loop over sorted(rel_east) / sorted(rel_north)
RECURSIVE avoid_stations(_, _, _)
avoid_stations(grid, stations, tol) ==
    IF stations = << >> THEN grid
    ELSE avoid_stations(nudge(grid, stations[1], tol), Tail(stations), tol)

\* .02 * cell_size
tolerance(cell_size) == cell_size \div 50

\* grid_east as assembled from the padding and the inner grid, before the
\* station loop
assembled_east(st, c) ==
    LET west == edge_low(st.rel_east, c.pad_num, c.cell_size_east)
        east == edge_high(st.rel_east, c.pad_num, c.cell_size_east)
        inner_east == inner_east_of(west, east, c.cell_size_east)
        padding_east == padding_of(c.pad_method, c.cell_size_east, c.ew_ext, east,
                                   inner_east, c.pad_east, c.pad_stretch_h)
    IN  join_grid(padding_east, inner_east)

make_grid_east(st, c) ==
    avoid_stations(assembled_east(st, c), sorted(st.rel_east),
                   tolerance(c.cell_size_east))

\* grid_north as assembled from the padding and the inner grid, before the
\* station loop
assembled_north(st, c) ==
    LET south == edge_low(st.rel_north, c.pad_num, c.cell_size_north)
        north == edge_high(st.rel_north, c.pad_num, c.cell_size_north)
        inner_north == inner_north_of(south, north, c.cell_size_north)
        padding_north == padding_of(c.pad_method, c.cell_size_north, c.ns_ext, north,
                                    inner_north, c.pad_north, c.pad_stretch_h)
    IN  join_grid(padding_north, inner_north)

make_grid_north(st, c) ==
    avoid_stations(assembled_north(st, c), sorted(st.rel_north),
                   tolerance(c.cell_size_north))

\* np.logspace(log10(z1), log10(zt), num=n)[-2], for the inputs where it is an
\* integer: x^(n-1) = z1 * zt^(n-2)
logspace_second_last(z1, zt, n) ==
    CHOOSE x \in z1..zt : PowEQ(x, n - 1, z1 * zt ^ (n - 2))

\* floor(log10(r)) for r = P^(1/n) >= 1: the largest d with 10^d <= r
RECURSIVE decade(_, _, _)
decade(P, n, d) == IF PowGT(10 ^ (d + 1), n, P) THEN d ELSE decade(P, n, d + 1)

\* z_nodes: sample ii (0-based) of logspace(log10(z1), log10(target), num), then
\* np.round(zz, -int(np.floor(np.log10(zz)) - 1)): two significant figures
\* (z1 >= 10, so the rounding unit is a whole number)
z_node(z1, target, num, ii) ==
    IF num = 1 THEN RoundTo(z1, 1, 10 ^ (decade(z1, 1, 0) - 1))
    ELSE RoundRootTo([n |-> z1, d |-> 1], num - 1 - ii, [n |-> target, d |-> 1], ii,
                     10 ^ (decade(z1 ^ (num - 1 - ii) * target ^ ii, num - 1, 0) - 1))

z_nodes_of(c) ==
    LET target == c.z_target_depth
                  - logspace_second_last(c.z1_layer, c.z_target_depth, c.n_layers)
        num == c.n_layers - c.pad_z
    IN  [k \in 1..num |-> z_node(c.z1_layer, target, num, k - 1)]

\* the nodes handed to the nodes_z setter: np.append(z_nodes, diff(z_padding))
make_nodes_z(c) ==
    LET z_nodes == z_nodes_of(c)
        z_padding == get_padding_cells(z_nodes[Len(z_nodes)],
                                       c.z_bottom - SumSeq(z_nodes),
                                       c.pad_z, c.pad_stretch_v)
    IN  z_nodes \o [ii \in 1..(Len(z_padding) - 1) |-> z_padding[ii + 1] - z_padding[ii]]

\* np.round(grid.min() - grid.mean(), -1)
center_of(grid) == RoundTo(MinSeq(grid) * Len(grid) - SumSeq(grid), Len(grid), 10)

-----------------------------------------------------------------------------
(* Resistivity values and the resistivity volume *)

\* A resistivity value is [f, x]: the functions in f applied, outermost first,
\* to the number x.  Lin(100) is 100 Ohm-m; np.log of it is [<<"ln">>, 100].
Lin(x) == [f |-> << >>, x |-> x]

\* apply fn to v; it cancels against its inverse inv when that is outermost
apply_fn(fn, inv, v) ==
    IF v.f # << >> /\ v.f[1] = inv THEN [v EXCEPT !.f = Tail(@)]
    ELSE [v EXCEPT !.f = << fn >> \o @]

np_log(v) == apply_fn("ln", "exp", v)

np_log10(v) == apply_fn("log10", "pow10", v)

np_exp(v) == apply_fn("exp", "ln", v)

np_pow10(v) == apply_fn("pow10", "log10", v)

\* res_model = None
NoVolume == [shape |-> << >>, val |-> << >>]

Cells(shape) == (1..shape[1]) \X (1..shape[2]) \X (1..shape[3])

\* np.zeros(shape), then [:, :, :] = v
full_volume(shape, v) == [shape |-> shape, val |-> [t \in Cells(shape) |-> v]]

\* the shape (nodes_north.size, nodes_east.size, nodes_z.size)
node_shape(gn, ge, gz) == << Len(gn) - 1, Len(ge) - 1, Len(gz) - 1 >>

-----------------------------------------------------------------------------
(* Model.write_model_file *)

\* self.res_scale.upper()
upper(res_scale) ==
    CASE res_scale = "loge" -> "LOGE"
      [] res_scale = "log" -> "LOG"
      [] res_scale = "log10" -> "LOG10"
      [] res_scale = "linear" -> "LINEAR"

\* token.lower()
lower(token) ==
    CASE token = "LOGE" -> "loge"
      [] token = "LOG" -> "log"
      [] token = "LOG10" -> "log10"
      [] token = "LINEAR" -> "linear"

\* write_res_model[nn, ee, zz] (1-based): the scale applied to res_model[::-1, :, :]
write_res_model(res, res_scale, nn, ee, zz) ==
    LET v == res.val[<< res.shape[1] + 1 - nn, ee, zz >>]
    IN  IF res_scale = "loge" THEN np_log(v)
        ELSE IF res_scale \in {"log", "log10"} THEN np_log10(v)
        ELSE v

\* one line of a depth block: the north values of east index ee, layer zz
north_row(res, res_scale, count, ee, zz) ==
    [nn \in 1..count |-> write_res_model(res, res_scale, nn, ee, zz)]

\* the first five lines: title, sizes and scale, the three node blocks
header_lines(nodes, res_scale) ==
    << << "#", "TITLE" >>,
       << Len(nodes[1]), Len(nodes[2]), Len(nodes[3]), 0, upper(res_scale) >>,
       nodes[1], nodes[2], nodes[3] >>

\* the blank line and the east lines of layer zz
RECURSIVE layer_lines(_, _, _, _, _)
layer_lines(res, res_scale, nodes, zz, upto) ==
    IF zz > upto THEN << >>
    ELSE << << >> >>
         \o [ee \in 1..Len(nodes[2]) |-> north_row(res, res_scale, Len(nodes[1]), ee, zz)]
         \o layer_lines(res, res_scale, nodes, zz + 1, upto)

\* a line is in the file only if something was written on it
line_if(tokens) == IF tokens = << >> THEN << >> ELSE << tokens >>

\* what the layer loop has written when write_res_model[nn, ee, zz] raises
\* IndexError because res_model is smaller than the node counts
partial_layers(res, res_scale, nodes) ==
    IF res.shape[3] < 1 \/ res.shape[2] < 1 THEN << << >> >>
    ELSE IF res.shape[1] < Len(nodes[1])
    THEN << << >> >> \o line_if(north_row(res, res_scale, res.shape[1], 1, 1))
    ELSE IF res.shape[2] < Len(nodes[2])
    THEN << << >> >>
         \o [ee \in 1..res.shape[2] |-> north_row(res, res_scale, Len(nodes[1]), ee, 1)]
    ELSE layer_lines(res, res_scale, nodes, 1, res.shape[3]) \o << << >> >>

\* res_model covers every index the layer loop reads
covers(res, nodes) ==
    /\ res.shape[1] >= Len(nodes[1])
    /\ res.shape[2] >= Len(nodes[2])
    /\ res.shape[3] >= Len(nodes[3])

\* the blank line, the grid centre line and the rotation line
trailer_lines(center, angle) ==
    << << >>, center, << IF angle = None THEN 0 ELSE angle[1] >> >>

-----------------------------------------------------------------------------
(* Model.read_model_file *)

\* self.res_model[:, count_e, count_z] = north_line[::-1] (0-based counts);
\* a one-value line is broadcast along north
set_column(vol, count_e, count_z, north_line) ==
    [vol EXCEPT !.val =
        [t \in Cells(vol.shape) |->
            IF t[2] = count_e + 1 /\ t[3] = count_z + 1
            THEN IF Len(north_line) = 1 THEN north_line[1]
                 ELSE Reverse(north_line)[t[1]]
            ELSE vol.val[t]]]

\* the while loop over the depth blocks; li is the 1-based line number
RECURSIVE read_blocks(_, _, _, _, _)
read_blocks(lines, vol, li, count_z, count_e) ==
    IF count_z >= vol.shape[3]
    THEN [vol |-> vol, li |-> li, err |-> "ok"]
    ELSE IF li > Len(lines)
    THEN [vol |-> vol, li |-> li, err |-> "IndexError"]
    ELSE IF Len(lines[li]) = 0
    THEN read_blocks(lines, vol, li + 1, count_z + 1, 0)
    ELSE IF count_e >= vol.shape[2]
    THEN [vol |-> vol, li |-> li, err |-> "IndexError"]
    ELSE IF Len(lines[li]) \notin {1, vol.shape[1]}
    THEN [vol |-> vol, li |-> li, err |-> "ValueError"]
    ELSE read_blocks(lines, set_column(vol, count_e, count_z, lines[li]),
                     li + 1, count_z, count_e + 1)

\* the loop over the lines after the last block: the last 3-field line is the
\* grid centre, the last 1-field line the rotation angle
RECURSIVE read_trailer(_, _, _, _)
read_trailer(lines, li, center, angle) ==
    IF li > Len(lines) THEN [grid_center |-> center, rotation_angle |-> angle]
    ELSE IF Len(lines[li]) = 3 THEN read_trailer(lines, li + 1, lines[li], angle)
    ELSE IF Len(lines[li]) = 1 THEN read_trailer(lines, li + 1, center, Some(lines[li][1]))
    ELSE read_trailer(lines, li + 1, center, angle)

\* a reader that takes the token LOG for the natural logarithm
read_transform_natural(log_yn, v) ==
    IF lower(log_yn) \in {"loge", "log"} THEN np_exp(v)
    ELSE IF lower(log_yn) = "log10" THEN np_pow10(v)
    ELSE v

\* the inverse transform chosen from the scale token on line 2
read_transform(log_yn, v) ==
    IF lower(log_yn) = "loge" THEN np_exp(v)
    ELSE IF lower(log_yn) \in {"log", "log10"} THEN np_pow10(v)
    ELSE v

transform_volume(log_yn, vol) ==
    [vol EXCEPT !.val = [t \in Cells(vol.shape) |-> read_transform(log_yn, vol.val[t])]]

Count(s, v) == Cardinality({k \in 1..Len(s) : s[k] = v})

\* stats.mode(nodes)[0][0]: the most frequent value, the smallest of them on a tie
mode(nodes) ==
    CHOOSE v \in {nodes[k] : k \in 1..Len(nodes)} :
        \A k \in 1..Len(nodes) :
            \/ Count(nodes, nodes[k]) < Count(nodes, v)
            \/ (Count(nodes, nodes[k]) = Count(nodes, v) /\ v <= nodes[k])

\* np.where(nodes[0:int(size/2)] != cell_size)[0]: 0-based indices
pad_indices(nodes, cell_size) ==
    {k - 1 : k \in {j \in 1..(Len(nodes) \div 2) : nodes[j] # cell_size}}

SetMax(S) == CHOOSE x \in S : \A y \in S : y <= x

\* a shift applied with the wrong sign
shifted_back(grid, shift) == [k \in 1..Len(grid) |-> grid[k] - shift]

\* grid += shift
shifted(grid, shift) == [k \in 1..Len(grid) |-> grid[k] + shift]

-----------------------------------------------------------------------------
(* Model.assign_resistivity_from_surfacedata *)

\* 1e12 Ohm-m, the resistivity of air
Air == [f |-> << "pow10" >>, x |-> 12]

\* 0.3 Ohm-m, the resistivity of sea water: a tenth of 3
SeaWater == [f |-> << "tenth" >>, x |-> 3]

\* twice gcz, the depths of the cell centres: grid_z[k] + grid_z[k+1]
gcz2(gz) == [k \in 1..(Len(gz) - 1) |-> gz[k] + gz[k + 1]]

\* a 2-D array of one value
uniform(shape, c) == [shape |-> shape, val |-> [t \in (1..shape[1]) \X (1..shape[2]) |-> c]]

\* - array
negated(a) == [a EXCEPT !.val = [t \in DOMAIN a.val |-> -a.val[t]]]

\* np.amin(array)
amin(a) == CHOOSE m \in {a.val[t] : t \in DOMAIN a.val} : \A t \in DOMAIN a.val : m <= a.val[t]

\* np.amax(array)
amax(a) == CHOOSE m \in {a.val[t] : t \in DOMAIN a.val} : \A t \in DOMAIN a.val : m >= a.val[t]

\* surfacedata: the named surface, positive down
surfacedata_of(sdict, surfacename) == negated(sdict.data[surfacename])

\* an upper limit that is always the top of the model
top_of_model_top(sdict, surfacename, gz) ==
    uniform(surfacedata_of(sdict, surfacename).shape, gz[1])

\* top: the upper limit of an assignment above a surface
top_of(sdict, surfacename, gz) ==
    LET surfacedata == surfacedata_of(sdict, surfacename)
    IN  IF "topography" \in sdict.keys
        THEN IF surfacename = "topography"
             THEN uniform(surfacedata.shape, amin(surfacedata) - 1)
             ELSE negated(sdict.data["topography"])
        ELSE uniform(surfacedata.shape, gz[1])

\* a[j, i] can be read
in_array(a, j, i) == j <= a.shape[1] /\ i <= a.shape[2]

\* indices that take a cell centred on the surface for one below it
assigned_indices_from_surface(gz, surfacedata, top, where, j, i) ==
    IF where = "above"
    THEN {k \in 1..(Len(gz) - 1) :
             /\ gcz2(gz)[k] <= 2 * surfacedata.val[<< j, i >>]
             /\ gcz2(gz)[k] > 2 * top.val[<< j, i >>]}
    ELSE {k \in 1..(Len(gz) - 1) : gcz2(gz)[k] >= 2 * surfacedata.val[<< j, i >>]}

\* indices that take the cells at and below the surface for those above it
assigned_indices_under(gz, surfacedata, top, where, j, i) ==
    IF where = "above"
    THEN {k \in 1..(Len(gz) - 1) :
             /\ gcz2(gz)[k] >= 2 * surfacedata.val[<< j, i >>]
             /\ gcz2(gz)[k] > 2 * top.val[<< j, i >>]}
    ELSE {k \in 1..(Len(gz) - 1) : gcz2(gz)[k] > 2 * surfacedata.val[<< j, i >>]}

\* ii: the depth indices the value goes to in column (j, i)
assigned_indices(gz, surfacedata, top, where, j, i) ==
    IF where = "above"
    THEN {k \in 1..(Len(gz) - 1) :
             /\ gcz2(gz)[k] <= 2 * surfacedata.val[<< j, i >>]
             /\ gcz2(gz)[k] > 2 * top.val[<< j, i >>]}
    ELSE {k \in 1..(Len(gz) - 1) : gcz2(gz)[k] > 2 * surfacedata.val[<< j, i >>]}

\* iisea: the depth indices between sea level and the surface in column (j, i)
sea_indices(gz, surfacedata, j, i) ==
    {k \in 1..(Len(gz) - 1) :
        gcz2(gz)[k] <= 2 * surfacedata.val[<< j, i >>] /\ gcz2(gz)[k] > 0}

\* res_model[j, i, ii] = value
set_cells(vol, j, i, ii, value) ==
    [vol EXCEPT !.val =
        [t \in Cells(vol.shape) |->
            IF t[1] = j /\ t[2] = i /\ t[3] \in ii THEN value ELSE vol.val[t]]]

\* the body of the loops for column (j, i): the volume after it and whether
\* it raised
assign_column(vol, gz, surfacedata, top, surfacename, value, where, j, i) ==
    IF ~in_array(surfacedata, j, i) \/ (where = "above" /\ ~in_array(top, j, i))
    THEN [vol |-> vol, err |-> "IndexError"]
    ELSE LET ii == assigned_indices(gz, surfacedata, top, where, j, i)
             iisea == sea_indices(gz, surfacedata, j, i)
             filled == set_cells(vol, j, i, ii, value)
         IN  IF \E k \in ii : k > vol.shape[3]
             THEN [vol |-> vol, err |-> "IndexError"]
             ELSE IF surfacename # "topography"
             THEN [vol |-> filled, err |-> "ok"]
             ELSE IF \E k \in iisea : k > vol.shape[3]
             THEN [vol |-> filled, err |-> "IndexError"]
             ELSE [vol |-> set_cells(filled, j, i, iisea, SeaWater), err |-> "ok"]

\* the loops over j (north) and i (east), from column (j, i) on
RECURSIVE assign_columns(_, _, _, _, _, _, _, _, _)
assign_columns(vol, gz, surfacedata, top, surfacename, value, where, j, i) ==
    IF j > vol.shape[1] THEN [vol |-> vol, err |-> "ok"]
    ELSE IF i > vol.shape[2]
    THEN assign_columns(vol, gz, surfacedata, top, surfacename, value, where, j + 1, 1)
    ELSE LET done == assign_column(vol, gz, surfacedata, top, surfacename, value,
                                   where, j, i)
         IN  IF done.err # "ok" THEN done
             ELSE assign_columns(done.vol, gz, surfacedata, top, surfacename, value,
                                 where, j, i + 1)

\* assign_resistivity_from_surfacedata: the volume it leaves and how it ends
assign_resistivity(vol, gz, sdict, surfacename, value, where) ==
    IF gz = None THEN [vol |-> vol, err |-> "TypeError"]
    ELSE IF ~sdict.defined THEN [vol |-> vol, err |-> "AttributeError"]
    ELSE IF surfacename \notin sdict.keys THEN [vol |-> vol, err |-> "KeyError"]
    ELSE IF vol = NoVolume THEN [vol |-> vol, err |-> "TypeError"]
    ELSE assign_columns(vol, gz, surfacedata_of(sdict, surfacename),
                        top_of(sdict, surfacename, gz), surfacename, value, where, 1, 1)

-----------------------------------------------------------------------------
(* Model.add_topography_to_model2 *)

\* twice gcx or gcy, the centres of the cells: grid[k] + grid[k+1]
centres2(grid) == [k \in 1..(Len(grid) - 1) |-> grid[k] + grid[k + 1]]

\* mesh_tools.get_station_buffer with
\* buf = 5 * (cell_size_east * 2 + cell_size_north ** 2) ** 0.5: the cells
\* (north index, east index) whose centre is nearer than buf to a station
core_cells(ge, gn, st, c) ==
    {t \in (1..(Len(gn) - 1)) \X (1..(Len(ge) - 1)) :
        \E s \in 1..Len(st.rel_east) :
            (2 * st.rel_east[s] - centres2(ge)[t[2]]) ^ 2
            + (2 * st.rel_north[s] - centres2(gn)[t[1]]) ^ 2
            < 100 * (c.cell_size_east * 2 + c.cell_size_north ^ 2)}

\* topo_core.max() and topo_core.min()
core_max(a, cells) == CHOOSE m \in {a.val[t] : t \in cells} : \A t \in cells : m >= a.val[t]

core_min(a, cells) == CHOOSE m \in {a.val[t] : t \in cells} : \A t \in cells : m <= a.val[t]

\* the range of topography for which new_airlayers below is exact: one air
\* layer, the first layer thinner than the range, and a range so small that
\* the last shrink of the maximum thickness, by a thousandth, cannot change a
\* rounded metre
air_layers_exact(n_airlayers, z1_layer, topo_max, topo_min) ==
    /\ n_airlayers = 1
    /\ z1_layer < topo_max - topo_min
    /\ topo_max - topo_min - z1_layer < 500

\* new_airlayers for n_airlayers = 1: make_log_increasing_array(z1_layer,
\* range, 2, 0.999) is [z1_layer, M] with M within a thousandth below
\* range - z1_layer; reversed, summed from zero, lowered by topo_core.max() and
\* rounded to whole metres
new_airlayers(z1_layer, topo_max, topo_min) ==
    << -topo_max, (topo_max - topo_min) - z1_layer - topo_max, -topo_min >>

\* a branch that takes sea level for the topography whatever is stored
air_layers_flat(st, c, ge, gn, gz, sdict) ==
    IF ge = None \/ gn = None \/ gz = None THEN [grid_z |-> gz, err |-> "TypeError"]
    ELSE [grid_z |-> << 0, -c.z1_layer >> \o gz, err |-> "ok"]

\* the branch n_airlayers > 0: the new grid_z, or the exception raised before
\* grid_z is assigned
air_layers(st, c, ge, gn, gz, sdict) ==
    IF ge = None \/ gn = None THEN [grid_z |-> gz, err |-> "TypeError"]
    ELSE IF ~st.defined THEN [grid_z |-> gz, err |-> "AttributeError"]
    ELSE IF st.rel_east = << >> THEN [grid_z |-> gz, err |-> "UnboundLocalError"]
    ELSE IF ~sdict.defined THEN [grid_z |-> gz, err |-> "AttributeError"]
    ELSE IF "topography" \notin sdict.keys THEN [grid_z |-> gz, err |-> "KeyError"]
    ELSE IF sdict.data["topography"].shape # << Len(gn) - 1, Len(ge) - 1 >>
    THEN [grid_z |-> gz, err |-> "IndexError"]
    ELSE IF core_cells(ge, gn, st, c) = {} THEN [grid_z |-> gz, err |-> "ValueError"]
    ELSE IF gz = None THEN [grid_z |-> gz, err |-> "TypeError"]
    ELSE LET cells == core_cells(ge, gn, st, c)
             topo == sdict.data["topography"]
             new == new_airlayers(c.z1_layer, core_max(topo, cells), core_min(topo, cells))
         IN  [grid_z |-> << new[1], new[2] >> \o shifted(gz, new[3]), err |-> "ok"]

\* an array of shape from can be assigned to a slice of shape to
broadcastable(from, to) == \A k \in 1..3 : from[k] = to[k] \/ from[k] = 1

\* a new volume that keeps the old values at their old depth indices
new_res_model_unshifted(res, shape, m, res_starting_value) ==
    [shape |-> shape,
     val |-> [t \in Cells(shape) |->
                IF t[3] > res.shape[3] THEN res_starting_value
                ELSE res.val[<< IF res.shape[1] = 1 THEN 1 ELSE t[1],
                                IF res.shape[2] = 1 THEN 1 ELSE t[2],
                                t[3] >>]]]

\* new_res_model: res_starting_value everywhere, then res_model from depth
\* index m on
new_res_model(res, shape, m, res_starting_value) ==
    [shape |-> shape,
     val |-> [t \in Cells(shape) |->
                IF t[3] <= m THEN res_starting_value
                ELSE res.val[<< IF res.shape[1] = 1 THEN 1 ELSE t[1],
                                IF res.shape[2] = 1 THEN 1 ELSE t[2],
                                IF res.shape[3] = 1 THEN 1 ELSE t[3] - m >>]]]

\* lines 1781-1791: the z of the grid centre, the new volume and the air above
\* the topography
tail(c, ge, gn, gz, gc, res, sdict) ==
    IF gz = None THEN [grid_center |-> gc, res_model |-> res, err |-> "TypeError"]
    ELSE IF gc = None THEN [grid_center |-> gc, res_model |-> res, err |-> "AttributeError"]
    ELSE LET centred == [gc EXCEPT ![3] = gz[1]]
         IN  IF gn = None \/ ge = None
             THEN [grid_center |-> centred, res_model |-> res, err |-> "AttributeError"]
             ELSE IF c.n_airlayers.val = None \/ res = NoVolume
             THEN [grid_center |-> centred, res_model |-> res, err |-> "TypeError"]
             ELSE LET m == c.n_airlayers.val[1] + 1
                      shape == << Len(gn) - 1, Len(ge) - 1, Len(gz) - 1 >>
                      done == assign_resistivity(
                                  new_res_model(res, shape, m, c.res_starting_value),
                                  gz, sdict, "topography", Air, "above")
                  IN  IF ~broadcastable(res.shape,
                                        << shape[1], shape[2], Max2(0, shape[3] - m) >>)
                      THEN [grid_center |-> centred, res_model |-> res,
                            err |-> "ValueError"]
                      ELSE [grid_center |-> centred, res_model |-> done.vol,
                            err |-> done.err]

\* add_topography_to_model2(): what it leaves of grid_z, grid_center and
\* res_model, and how it ends
add_topography(st, c, ge, gn, gz, gc, res, sdict) ==
    IF ~c.n_airlayers.set
    THEN [grid_z |-> gz, grid_center |-> gc, res_model |-> res, err |-> "AttributeError"]
    ELSE LET layered == IF c.n_airlayers.val = None \/ c.n_airlayers.val[1] <= 0
                        THEN [grid_z |-> gz, err |-> "ok"]
                        ELSE air_layers(st, c, ge, gn, gz, sdict)
             done == tail(c, ge, gn, layered.grid_z, gc, res, sdict)
         IN  IF layered.err # "ok"
             THEN [grid_z |-> gz, grid_center |-> gc, res_model |-> res,
                   err |-> layered.err]
             ELSE [grid_z |-> layered.grid_z, grid_center |-> done.grid_center,
                   res_model |-> done.res_model, err |-> done.err]

-----------------------------------------------------------------------------
(* The inputs *)

\* the longest sequence of operations a model is followed through
MaxOps == 5

\* the largest number of stations in a station set
MaxStations == 2

\* the longest node array assigned to a nodes property
MaxNodes == 2

\* the largest num_cells handed to a padding generator directly
MaxNumCells == 3

\* station positions (rel_east, rel_north) in metres
StationPoints ==
    << [east |-> 0, north |-> 0],
       [east |-> 1000, north |-> 1000],
       [east |-> 999, north |-> 1495],
       [east |-> 1019, north |-> 250] >>

RECURSIVE PickStations(_, _)
PickStations(S, k) ==
    IF k > Len(StationPoints) THEN [rel_east |-> << >>, rel_north |-> << >>]
    ELSE LET rest == PickStations(S, k + 1)
         IN  IF k \in S
             THEN [rel_east |-> << StationPoints[k].east >> \o rest.rel_east,
                   rel_north |-> << StationPoints[k].north >> \o rest.rel_north]
             ELSE rest

\* the station objects a mesh is made for
StationSets ==
    { [defined |-> TRUE,
       rel_east |-> PickStations(S, 1).rel_east,
       rel_north |-> PickStations(S, 1).rel_north] :
      S \in {T \in SUBSET (1..Len(StationPoints)) :
                 Cardinality(T) >= 1 /\ Cardinality(T) <= MaxStations} }

PadMethods == {"extent1", "extent2", "stretch"}

\* an attribute __init__ does not assign, and one that was set later
Unset == [set |-> FALSE, val |-> None]

SetTo(v) == [set |-> TRUE, val |-> v]

ResScales == {"loge", "log", "log10", "linear"}

\* vertical layouts whose auxiliary log-space sample is an integer
VerticalLayouts ==
    { [z1_layer |-> 10, z_target_depth |-> 10000, z_bottom |-> 30000,
       n_layers |-> 4, pad_z |-> 2],
      [z1_layer |-> 10, z_target_depth |-> 160, z_bottom |-> 3000,
       n_layers |-> 5, pad_z |-> 3] }

\* horizontal layouts: cell size, cells outside the station area, padding
\* cells and total extent
HorizontalLayouts ==
    { [cell_size |-> 500, pad_num |-> 2, pad |-> 3, ext |-> 20000],
      [cell_size |-> 100, pad_num |-> 0, pad |-> 2, ext |-> 4000] }

\* the attributes Model.__init__ assigns, with the keyword overrides applied
Config(h, v, m, r) ==
    [cell_size_east |-> h.cell_size, cell_size_north |-> h.cell_size,
     pad_east |-> h.pad, pad_north |-> h.pad, pad_z |-> v.pad_z, pad_num |-> h.pad_num,
     ew_ext |-> h.ext, ns_ext |-> h.ext,
     pad_stretch_h |-> [p |-> 6, q |-> 5], pad_stretch_v |-> [p |-> 6, q |-> 5],
     pad_method |-> m,
     z1_layer |-> v.z1_layer, z_target_depth |-> v.z_target_depth,
     z_bottom |-> v.z_bottom, n_layers |-> v.n_layers,
     mesh_rotation_angle |-> Some(0),
     res_starting_value |-> Lin(100), res_scale |-> r,
     north_pad |-> None, n_airlayers |-> Unset]

\* the configurations a mesh is made for
MeshConfigs ==
    { Config(h, v, m, "loge") :
        h \in HorizontalLayouts, v \in VerticalLayouts, m \in PadMethods }

\* the station object and the configurations of a model that is followed
\* through its life: a small grid, every padding method and every scale
LifeStations ==
    { [defined |-> TRUE, rel_east |-> << 0, 100 >>, rel_north |-> << 0, 100 >>] }

LifeConfigs ==
    { Config([cell_size |-> 100, pad_num |-> 0, pad |-> 2, ext |-> 2000],
             [z1_layer |-> 10, z_target_depth |-> 10000, z_bottom |-> 30000,
              n_layers |-> 4, pad_z |-> 2],
             m, r) :
        m \in PadMethods, r \in ResScales }

RECURSIVE SeqsUpTo(_, _)
SeqsUpTo(S, n) ==
    IF n = 0 THEN { << >> }
    ELSE SeqsUpTo(S, n - 1)
         \cup { Append(q, x) : q \in {r \in SeqsUpTo(S, n - 1) : Len(r) = n - 1}, x \in S }

\* node widths in metres; even, so that half the sum is a whole number
NodeWidths == {200, 400}

NodeArrays == SeqsUpTo(NodeWidths, MaxNodes) \ { << >> }

\* the node arrays assigned during the life of a model
LifeNodeArrays == { << 400, 200 >> }

\* an index-coded volume: every cell holds a different value
coded_volume(shape) ==
    [shape |-> shape,
     val |-> [t \in Cells(shape) |-> Lin(10000 * t[1] + 100 * t[2] + t[3])]]

\* the res_model keyword of write_model_file: none, a number, an array
WriteKwargs == {"none", "number", "array"}

\* arguments of the padding generators
PadArgs ==
    [cell_width : {10, 40, 100, 300},
     max_distance : {100, 1000, 1500},
     num_cells : 1..MaxNumCells,
     stretch : {[p |-> 1, q |-> 1], [p |-> 6, q |-> 5], [p |-> 3, q |-> 2]},
     core_max : {100, 540, 900}]

NoArgs == [cell_width |-> 0, max_distance |-> 0, num_cells |-> 0,
           stretch |-> [p |-> 1, q |-> 1], core_max |-> 0]

NoResult == [fn |-> "none", status |-> "none", value |-> << >>]

NoStations == [defined |-> FALSE, rel_east |-> << >>, rel_north |-> << >>]

\* the names a surface is stored under
SurfaceNames == {"topography", "basement"}

\* no array under a name
NoSurface == [shape |-> << 0, 0 >>, val |-> << >>]

\* the attribute surface_dict does not exist until interpolate_elevation2
\* creates it
NoSurfaces == [defined |-> FALSE, keys |-> {}, data |-> [n \in SurfaceNames |-> NoSurface]]

\* elevations (m, positive up) that an interpolation onto the cell centres
\* returns: sea level everywhere, a sea floor 300 m down, and a surface that
\* is above sea level in places and below it in others
ramp(shape) ==
    [shape |-> shape,
     val |-> [t \in (1..shape[1]) \X (1..shape[2]) |-> 100 * (t[2] - 1) - 300 * (t[1] - 1)]]

\* a surface that rises by 20 m per cell to the east and falls by 10 m per cell
\* to the north
slope(shape) ==
    [shape |-> shape,
     val |-> [t \in (1..shape[1]) \X (1..shape[2]) |-> 20 * (t[2] - 1) - 10 * (t[1] - 1)]]

Elevations(shape) ==
    {uniform(shape, 0), uniform(shape, -300), ramp(shape), slope(shape)}

\* n_airlayers: never set, None, no air layer, one air layer
AirLayerCounts == {Unset, SetTo(None), SetTo(Some(0)), SetTo(Some(1))}

\* the values assigned above or below a surface
ResistivityValues == {Lin(1000), Air}

\* the node arrays assigned while surfaces are in use
SurfaceNodeArrays == { << 400, 200 >>, << 100, 100, 200, 200 >> }

\* arguments of make_log_increasing_array; with two layers or more the first
\* layer is thinner than the target depth
LogArgs ==
    {a \in [z1_layer : {1, 10, 20},
            target_depth : {15, 30, 100},
            n_layers : 1..3,
            increment_factor : {[p |-> 1, q |-> 2], [p |-> 1, q |-> 10]}] :
        a.n_layers >= 2 => a.z1_layer < a.target_depth}

\* make_log_increasing_array is not running
NoLoop == [pc |-> "idle", counter |-> 0]

-----------------------------------------------------------------------------
(* The Model object: construction and operations *)

Done(op, status, arg) == [op |-> op, status |-> status, arg |-> arg]

\* the attributes __init__ leaves for later
Fresh ==
    /\ grid_east = None
    /\ grid_north = None
    /\ grid_z = None
    /\ grid_center = None
    /\ res_model = NoVolume
    /\ rotation_angle = None
    /\ model_file = None
    /\ written = NoVolume
    /\ outcome = Done("__init__", "ok", << >>)
    /\ ops = 0
    /\ surface_dict = NoSurfaces
    /\ loop = NoLoop
    /\ result = NoResult

\* Model(station_object, **kwargs)
Init ==
    /\ station_locations \in LifeStations
    /\ cfg \in LifeConfigs
    /\ Fresh
    /\ args = NoArgs

InitMesh ==
    /\ station_locations \in StationSets
    /\ cfg \in MeshConfigs
    /\ Fresh
    /\ args = NoArgs

\* a make_mesh that takes an unknown pad_method for 'stretch'
raises_before_grids_lenient(st, c) ==
    IF ~st.defined THEN "AttributeError"
    ELSE IF st.rel_east = << >> \/ st.rel_north = << >> THEN "ValueError"
    ELSE IF c.cell_size_east = 0 \/ c.cell_size_north = 0 THEN "ZeroDivisionError"
    ELSE IF c.pad_method = "extent1" /\ (c.pad_east = 1 \/ c.pad_north = 1)
    THEN "ZeroDivisionError"
    ELSE "none"

\* the exception make_mesh raises before it assigns grid_east, if any:
\* line 291, rel_east of None (AttributeError) or .min() of an empty array
\* (ValueError); line 308, np.arange with a zero step; line 316,
\* get_padding_cells dividing by num_cells - 1; line 342, padding_east never
\* assigned because no branch matched pad_method
raises_before_grids(st, c) ==
    IF ~st.defined THEN "AttributeError"
    ELSE IF st.rel_east = << >> \/ st.rel_north = << >> THEN "ValueError"
    ELSE IF c.cell_size_east = 0 \/ c.cell_size_north = 0 THEN "ZeroDivisionError"
    ELSE IF c.pad_method = "extent1" /\ (c.pad_east = 1 \/ c.pad_north = 1)
    THEN "ZeroDivisionError"
    ELSE IF c.pad_method \notin PadMethods THEN "UnboundLocalError"
    ELSE "none"

\* Model.make_mesh
MakeMesh ==
    /\ ops < MaxOps
    /\ ops' = ops + 1
    /\ UNCHANGED << surface_dict, loop >>
    /\ IF raises_before_grids(station_locations, cfg) # "none"
       THEN /\ outcome' = Done("make_mesh", raises_before_grids(station_locations, cfg),
                               << >>)
            /\ UNCHANGED << station_locations, cfg, grid_east, grid_north, grid_z,
                            grid_center, res_model, rotation_angle, model_file,
                            written, args, result >>
       ELSE IF cfg.pad_z = 1
       THEN \* the same in the vertical padding, after the horizontal grids are set
            /\ grid_east' = make_grid_east(station_locations, cfg)
            /\ grid_north' = make_grid_north(station_locations, cfg)
            /\ outcome' = Done("make_mesh", "ZeroDivisionError", << >>)
            /\ UNCHANGED << station_locations, cfg, grid_z, grid_center, res_model,
                            rotation_angle, model_file, written, args, result >>
       ELSE /\ grid_east' = make_grid_east(station_locations, cfg)
            /\ grid_north' = make_grid_north(station_locations, cfg)
            /\ grid_z' = nodes_set_z(make_nodes_z(cfg))
            /\ grid_center' = << center_of(grid_north'), center_of(grid_east'), 0 >>
            /\ outcome' = Done("make_mesh", "ok", << >>)
            /\ UNCHANGED << station_locations, cfg, res_model, rotation_angle,
                            model_file, written, args, result >>

\* model.nodes_east = nodes
SetNodesEast(nodes) ==
    /\ ops < MaxOps
    /\ ops' = ops + 1
    /\ UNCHANGED << surface_dict, loop >>
    /\ grid_east' = nodes_set_horizontal(nodes)
    /\ outcome' = Done("nodes_east", "ok", nodes)
    /\ UNCHANGED << station_locations, cfg, grid_north, grid_z, grid_center,
                    res_model, rotation_angle, model_file, written, args, result >>

\* model.nodes_north = nodes
SetNodesNorth(nodes) ==
    /\ ops < MaxOps
    /\ ops' = ops + 1
    /\ UNCHANGED << surface_dict, loop >>
    /\ grid_north' = nodes_set_horizontal(nodes)
    /\ outcome' = Done("nodes_north", "ok", nodes)
    /\ UNCHANGED << station_locations, cfg, grid_east, grid_z, grid_center,
                    res_model, rotation_angle, model_file, written, args, result >>

\* model.nodes_z = nodes
SetNodesZ(nodes) ==
    /\ ops < MaxOps
    /\ ops' = ops + 1
    /\ UNCHANGED << surface_dict, loop >>
    /\ grid_z' = nodes_set_z(nodes)
    /\ outcome' = Done("nodes_z", "ok", nodes)
    /\ UNCHANGED << station_locations, cfg, grid_east, grid_north, grid_center,
                    res_model, rotation_angle, model_file, written, args, result >>

GridsDefined == grid_north # None /\ grid_east # None /\ grid_z # None

\* (nodes_north, nodes_east, nodes_z) as the properties return them
Nodes == << nodes_get(grid_north), nodes_get(grid_east), nodes_get(grid_z) >>

\* a writer that always allocates the volume anew
volume_to_write_fresh(kw, res, shape, start) ==
    IF kw = "array" THEN coded_volume(shape) ELSE full_volume(shape, start)

\* self.res_model after lines 861-891: the keyword if one was passed, a full
\* volume of the starting value if res_model is None or a number, else the
\* volume the model holds
volume_to_write(kw, res, shape, start) ==
    IF kw = "array" THEN coded_volume(shape)
    ELSE IF kw = "number" \/ res = NoVolume THEN full_volume(shape, start)
    ELSE res

\* Model.write_model_file(res_model=...); a res_model keyword is passed only
\* once the three grids exist
WriteModelFile(kw) ==
    /\ ops < MaxOps
    /\ ops' = ops + 1
    /\ UNCHANGED << surface_dict, loop >>
    /\ kw # "none" => GridsDefined
    /\ UNCHANGED << station_locations, grid_east, grid_north, grid_z,
                    rotation_angle, args, result >>
    /\ IF ~GridsDefined
       THEN IF res_model = NoVolume
            THEN \* line 883: self.nodes_north.size of None
                 /\ outcome' = Done("write_model_file", "AttributeError", kw)
                 /\ UNCHANGED << cfg, grid_center, res_model, model_file, written >>
            ELSE \* line 898: the file is open and holds the title
                 /\ model_file' = << << "#", "TITLE" >> >>
                 /\ written' = res_model
                 /\ outcome' = Done("write_model_file", "AttributeError", kw)
                 /\ UNCHANGED << cfg, grid_center, res_model >>
       ELSE LET shape == node_shape(grid_north, grid_east, grid_z)
                start == IF kw = "number" THEN Lin(50) ELSE cfg.res_starting_value
                res == volume_to_write(kw, res_model, shape, start)
                head == header_lines(Nodes, cfg.res_scale)
            IN  /\ cfg' = [cfg EXCEPT !.res_starting_value = start]
                /\ res_model' = res
                /\ written' = res
                /\ UNCHANGED grid_center
                /\ IF ~covers(res, Nodes)
                   THEN /\ model_file' = head \o partial_layers(res, cfg.res_scale, Nodes)
                        /\ outcome' = Done("write_model_file", "IndexError", kw)
                   ELSE IF grid_center = None
                   THEN /\ model_file' = head \o layer_lines(res, cfg.res_scale, Nodes,
                                                              1, Len(Nodes[3]))
                        /\ outcome' = Done("write_model_file", "AttributeError", kw)
                   ELSE /\ model_file' = head
                                          \o layer_lines(res, cfg.res_scale, Nodes,
                                                         1, Len(Nodes[3]))
                                          \o trailer_lines(grid_center,
                                                           cfg.mesh_rotation_angle)
                        /\ outcome' = Done("write_model_file", "ok", kw)

\* Model.read_model_file() of the file last written
ReadModelFile ==
    /\ ops < MaxOps
    /\ ops' = ops + 1
    /\ UNCHANGED << surface_dict, loop >>
    /\ UNCHANGED << station_locations, model_file, written, args, result >>
    /\ IF model_file = None
       THEN \* line 1012: no file to open
            /\ outcome' = Done("read_model_file", "IOError", << >>)
            /\ UNCHANGED << cfg, grid_east, grid_north, grid_z, grid_center,
                            res_model, rotation_angle >>
       ELSE IF Len(model_file) < 5
       THEN \* line 1019: ilines[1] of a file that holds the title only
            /\ outcome' = Done("read_model_file", "IndexError", << >>)
            /\ UNCHANGED << cfg, grid_east, grid_north, grid_z, grid_center,
                            res_model, rotation_angle >>
       ELSE LET ilines == model_file
                nsize == ilines[2]
                log_yn == nsize[5]
                north0 == nodes_set_horizontal(ilines[3])
                east0 == nodes_set_horizontal(ilines[4])
                blocks == read_blocks(ilines,
                                      full_volume(<< nsize[1], nsize[2], nsize[3] >>, Lin(0)),
                                      7, 0, 0)
                trailer == read_trailer(ilines, blocks.li, grid_center, rotation_angle)
                shift_north == trailer.grid_center[1] + SumSeq(nodes_get(north0)) \div 2
                shift_east == trailer.grid_center[2] + SumSeq(nodes_get(east0)) \div 2
                cs_east == mode(nodes_get(east0))
                cs_north == mode(nodes_get(north0))
                pads_east == pad_indices(nodes_get(east0), cs_east)
                pads_north == pad_indices(nodes_get(north0), cs_north)
                sized == [cfg EXCEPT !.cell_size_east = cs_east,
                                     !.cell_size_north = cs_north]
            IN  /\ grid_z' = nodes_set_z(ilines[5])
                /\ IF blocks.err # "ok"
                   THEN \* the block loop raised
                        /\ grid_north' = north0
                        /\ grid_east' = east0
                        /\ res_model' = blocks.vol
                        /\ outcome' = Done("read_model_file", blocks.err, << >>)
                        /\ UNCHANGED << cfg, grid_center, rotation_angle >>
                   ELSE /\ res_model' = transform_volume(log_yn, blocks.vol)
                        /\ rotation_angle' = trailer.rotation_angle
                        /\ grid_center' = trailer.grid_center
                        /\ IF trailer.grid_center = None
                           THEN \* line 1080: grid_center was never assigned
                                /\ grid_north' = north0
                                /\ grid_east' = east0
                                /\ outcome' = Done("read_model_file", "AttributeError", << >>)
                                /\ UNCHANGED cfg
                           ELSE /\ grid_north' = shifted(north0, shift_north)
                                /\ grid_east' = shifted(east0, shift_east)
                                /\ IF pads_east = {}
                                   THEN /\ cfg' = sized
                                        /\ outcome' = Done("read_model_file", "IndexError", << >>)
                                   ELSE IF pads_north = {}
                                   THEN /\ cfg' = [sized EXCEPT !.pad_east = SetMax(pads_east)]
                                        /\ outcome' = Done("read_model_file", "IndexError", << >>)
                                   ELSE /\ cfg' = [sized EXCEPT
                                                       !.pad_east = SetMax(pads_east),
                                                       !.north_pad = Some(SetMax(pads_north))]
                                        /\ outcome' = Done("read_model_file", "ok", << >>)

Next ==
    \/ MakeMesh
    \/ \E nodes \in LifeNodeArrays : SetNodesEast(nodes)
    \/ \E nodes \in LifeNodeArrays : SetNodesNorth(nodes)
    \/ \E nodes \in LifeNodeArrays : SetNodesZ(nodes)
    \/ \E kw \in WriteKwargs : WriteModelFile(kw)
    \/ ReadModelFile

Spec == Init /\ [][Next]_vars

\* the lines a file may hold after its last depth block, blank line aside
MaxTrailer == 2

TrailerLines == {<< -500, -700, 0 >>, << 30 >>, << 1, 2 >>}

\* the end of a file: nothing at all, or the blank line that closes the last
\* block and then any centre, rotation and other lines
Trailers == {<< >>} \cup {<< << >> >> \o t : t \in SeqsUpTo(TrailerLines, MaxTrailer)}

ReadNodes == << << 400, 200, 200, 400 >>, << 400, 200, 200, 400 >>, << 10 >> >>

\* model files of a 4 x 4 x 1 volume in each scale
ReadFiles ==
    {header_lines(ReadNodes, res_scale)
        \o layer_lines(coded_volume(<< 4, 4, 1 >>), res_scale, ReadNodes, 1, 1)
        \o trailer :
            res_scale \in {"loge", "log10", "linear"}, trailer \in Trailers}

\* a new Model whose model_fn names a file that was not written by it
InitRead ==
    /\ station_locations = NoStations
    /\ cfg \in {c \in LifeConfigs : c.pad_method = "stretch" /\ c.res_scale = "loge"}
    /\ grid_east = None
    /\ grid_north = None
    /\ grid_z = None
    /\ grid_center = None
    /\ res_model = NoVolume
    /\ rotation_angle = None
    /\ model_file \in ReadFiles
    /\ written = NoVolume
    /\ outcome = Done("__init__", "ok", << >>)
    /\ ops = 0
    /\ surface_dict = NoSurfaces
    /\ loop = NoLoop
    /\ result = NoResult
    /\ args = NoArgs

NextRead == ReadModelFile

SpecRead == InitRead /\ [][NextRead]_vars

\* station objects make_mesh cannot use, and one it can
FailStations ==
    {NoStations,
     [defined |-> TRUE, rel_east |-> << >>, rel_north |-> << >>]}
    \cup LifeStations

\* configurations with a pad_method make_mesh knows and with one it does not
FailConfigs ==
    {[c EXCEPT !.pad_method = m] :
        c \in {d \in LifeConfigs : d.res_scale = "loge" /\ d.pad_method = "stretch"},
        m \in {"stretch", "extent3"}}

InitFail ==
    /\ station_locations \in FailStations
    /\ cfg \in FailConfigs
    /\ Fresh
    /\ args = NoArgs

\* make_mesh on a model whose grids may have been set through its nodes
NextFail ==
    \/ MakeMesh
    \/ \E nodes \in LifeNodeArrays : SetNodesEast(nodes)
    \/ \E nodes \in LifeNodeArrays : SetNodesNorth(nodes)
    \/ \E nodes \in LifeNodeArrays : SetNodesZ(nodes)

SpecFail == InitFail /\ [][NextFail]_vars

\* make_mesh alone, over the station sets and configurations
NextMesh == MakeMesh

SpecMesh == InitMesh /\ [][NextMesh]_vars

\* Model.interpolate_elevation2(surface=..., surfacename=surfacename); elev is
\* what scipy's griddata returns for the cell centres
InterpolateElevation2(surfacename) ==
    /\ ops < MaxOps
    /\ ops' = ops + 1
    /\ UNCHANGED << station_locations, cfg, grid_east, grid_north, grid_z, grid_center,
                    res_model, rotation_angle, model_file, written, loop, args, result >>
    /\ IF ~station_locations.defined
       THEN \* line 1677: the attributes of None, after line 1666
            /\ surface_dict' = [surface_dict EXCEPT !.defined = TRUE]
            /\ outcome' = Done("interpolate_elevation2", "AttributeError", << >>)
       ELSE IF grid_east = None \/ grid_north = None
       THEN \* line 1688: None + x0
            /\ surface_dict' = [surface_dict EXCEPT !.defined = TRUE]
            /\ outcome' = Done("interpolate_elevation2", "TypeError", << >>)
       ELSE /\ \E elev \in Elevations(<< Len(grid_north) - 1, Len(grid_east) - 1 >>) :
                  surface_dict' = [defined |-> TRUE,
                                   keys |-> surface_dict.keys \cup {surfacename},
                                   data |-> [surface_dict.data EXCEPT
                                                ![surfacename] = elev]]
            /\ outcome' = Done("interpolate_elevation2", "ok", << >>)

\* Model.assign_resistivity_from_surfacedata(surfacename, resistivity_value, where)
AssignResistivity(surfacename, resistivity_value, where) ==
    /\ ops < MaxOps
    /\ ops' = ops + 1
    /\ LET done == assign_resistivity(res_model, grid_z, surface_dict, surfacename,
                                      resistivity_value, where)
       IN  /\ res_model' = done.vol
           /\ outcome' = Done("assign_resistivity_from_surfacedata", done.err,
                              [surfacename |-> surfacename,
                               resistivity_value |-> resistivity_value,
                               where |-> where])
    /\ UNCHANGED << station_locations, cfg, grid_east, grid_north, grid_z, grid_center,
                    rotation_angle, model_file, written, surface_dict, loop, args,
                    result >>

\* the topography over the core cells is one new_airlayers is exact for
InExactRange ==
    (/\ cfg.n_airlayers.set
     /\ cfg.n_airlayers.val # None
     /\ cfg.n_airlayers.val[1] > 0
     /\ grid_east # None /\ grid_north # None
     /\ station_locations.defined
     /\ surface_dict.defined
     /\ "topography" \in surface_dict.keys
     /\ surface_dict.data["topography"].shape
            = << Len(grid_north) - 1, Len(grid_east) - 1 >>
     /\ core_cells(grid_east, grid_north, station_locations, cfg) # {})
    => LET cells == core_cells(grid_east, grid_north, station_locations, cfg)
           topo == surface_dict.data["topography"]
       IN  air_layers_exact(cfg.n_airlayers.val[1], cfg.z1_layer,
                            core_max(topo, cells), core_min(topo, cells))

\* Model.add_topography_to_model2() with neither a topography file nor a
\* topography array: the surface is the one stored under 'topography'.  The
\* call is followed where the sizes of the air layers are exact.
AddTopography2 ==
    /\ ops < MaxOps
    /\ ops' = ops + 1
    /\ InExactRange
    /\ LET done == add_topography(station_locations, cfg, grid_east, grid_north,
                                  grid_z, grid_center, res_model, surface_dict)
       IN  /\ grid_z' = done.grid_z
           /\ grid_center' = done.grid_center
           /\ res_model' = done.res_model
           /\ outcome' = Done("add_topography_to_model2", done.err, << >>)
    /\ UNCHANGED << station_locations, cfg, grid_east, grid_north, rotation_angle,
                    model_file, written, surface_dict, loop, args, result >>

\* a model that is given its air layers
InitTopo ==
    /\ station_locations \in LifeStations
    /\ cfg \in {[c EXCEPT !.n_airlayers = n] :
                  c \in {d \in LifeConfigs : d.pad_method = "stretch"
                                              /\ d.res_scale = "loge"},
                  n \in AirLayerCounts}
    /\ Fresh
    /\ args = NoArgs

NextTopo ==
    \/ MakeMesh
    \/ WriteModelFile("none")
    \/ \E surfacename \in SurfaceNames : InterpolateElevation2(surfacename)
    \/ \E surfacename \in SurfaceNames, resistivity_value \in ResistivityValues,
          where \in {"above", "below"} :
              AssignResistivity(surfacename, resistivity_value, where)
    \/ AddTopography2

SpecTopo == InitTopo /\ [][NextTopo]_vars

\* elevations of a cell, above and below sea level
CellElevations == {-25, 0, 5, 20}

\* surfaces over one north row of two cells
RowSurfaces ==
    {[shape |-> << 1, 2 >>,
      val |-> [t \in (1..1) \X (1..2) |-> IF t[2] = 1 THEN a ELSE b]] :
        a \in CellElevations, b \in CellElevations}

\* the grid_z keyword: a grid from sea level down, and one with two layers
\* above sea level
DepthGrids == {<< 0, 10, 30 >>, << -60, -20, 0, 10, 30 >>}

\* the surface_dict keyword: a topography, a basement 15 m or 5 m under sea
\* level and partly above it, or both
SurfaceDicts ==
    LET basements == {[shape |-> << 1, 2 >>,
                       val |-> [t \in (1..1) \X (1..2) |->
                                   IF t[2] = 1 THEN -15 ELSE b]] : b \in {-5, 15}}
        with(keys, topo, base) ==
            [defined |-> TRUE, keys |-> keys,
             data |-> [n \in SurfaceNames |->
                          IF n = "topography" /\ n \in keys THEN topo
                          ELSE IF n = "basement" /\ n \in keys THEN base
                          ELSE NoSurface]]
    IN  {with({"topography"}, topo, NoSurface) : topo \in RowSurfaces}
        \cup {with({"basement"}, NoSurface, base) : base \in basements}
        \cup {with({"topography", "basement"}, topo, base) :
                  topo \in RowSurfaces, base \in basements}

\* Model(None, grid_north=..., grid_east=..., grid_z=..., res_model=...,
\* surface_dict=...): __init__ sets every keyword as an attribute
InitAssign ==
    /\ station_locations = NoStations
    /\ cfg \in {c \in LifeConfigs : c.pad_method = "stretch" /\ c.res_scale = "loge"}
    /\ grid_north = << 0, 100 >>
    /\ grid_east = << 0, 100, 200 >>
    /\ grid_z \in DepthGrids
    /\ grid_center = None
    /\ res_model = coded_volume(node_shape(grid_north, grid_east, grid_z))
    /\ rotation_angle = None
    /\ model_file = None
    /\ written = NoVolume
    /\ outcome = Done("__init__", "ok", << >>)
    /\ ops = 0
    /\ surface_dict \in SurfaceDicts
    /\ loop = NoLoop
    /\ result = NoResult
    /\ args = NoArgs

\* assignments only
NextAssign ==
    \E surfacename \in SurfaceNames, resistivity_value \in ResistivityValues,
       where \in {"above", "below"} :
           AssignResistivity(surfacename, resistivity_value, where)

SpecAssign == InitAssign /\ [][NextAssign]_vars

\* make_mesh at line 351: both horizontal grids are assembled and the loop
\* over the sorted east coordinates is about to start
InitAvoid ==
    /\ station_locations \in StationSets
    /\ cfg \in {c \in MeshConfigs : /\ raises_before_grids(station_locations, c) = "none"
                                    /\ c.pad_z # 1}
    /\ grid_east = assembled_east(station_locations, cfg)
    /\ grid_north = assembled_north(station_locations, cfg)
    /\ grid_z = None
    /\ grid_center = None
    /\ res_model = NoVolume
    /\ rotation_angle = None
    /\ model_file = None
    /\ written = NoVolume
    /\ outcome = Done("__init__", "ok", << >>)
    /\ ops = 0
    /\ surface_dict = NoSurfaces
    /\ loop = [pc |-> "east", counter |-> 0]
    /\ args = NoArgs
    /\ result = NoResult

\* lines 352-361: one pass of the loop over sorted(rel_east)
EastPass ==
    /\ loop.pc = "east"
    /\ loop.counter < Len(station_locations.rel_east)
    /\ grid_east' = nudge(grid_east, sorted(station_locations.rel_east)[loop.counter + 1],
                          tolerance(cfg.cell_size_east))
    /\ loop' = [loop EXCEPT !.counter = @ + 1]
    /\ UNCHANGED << station_locations, cfg, grid_north, grid_z, grid_center, res_model,
                    rotation_angle, model_file, outcome, written, ops, surface_dict,
                    args, result >>

\* line 364: the east loop is exhausted and the north loop starts
EastDone ==
    /\ loop.pc = "east"
    /\ loop.counter = Len(station_locations.rel_east)
    /\ loop' = [pc |-> "north", counter |-> 0]
    /\ UNCHANGED << station_locations, cfg, grid_east, grid_north, grid_z, grid_center,
                    res_model, rotation_angle, model_file, outcome, written, ops,
                    surface_dict, args, result >>

\* lines 364-373: one pass of the loop over sorted(rel_north)
NorthPass ==
    /\ loop.pc = "north"
    /\ loop.counter < Len(station_locations.rel_north)
    /\ grid_north' = nudge(grid_north,
                           sorted(station_locations.rel_north)[loop.counter + 1],
                           tolerance(cfg.cell_size_north))
    /\ loop' = [loop EXCEPT !.counter = @ + 1]
    /\ UNCHANGED << station_locations, cfg, grid_east, grid_z, grid_center, res_model,
                    rotation_angle, model_file, outcome, written, ops, surface_dict,
                    args, result >>

\* from line 375: the north loop is exhausted; the depth grid and the grid
\* center are set and make_mesh returns
NorthDone ==
    /\ loop.pc = "north"
    /\ loop.counter = Len(station_locations.rel_north)
    /\ loop' = NoLoop
    /\ grid_z' = nodes_set_z(make_nodes_z(cfg))
    /\ grid_center' = << center_of(grid_north), center_of(grid_east), 0 >>
    /\ outcome' = Done("make_mesh", "ok", << >>)
    /\ ops' = ops + 1
    /\ UNCHANGED << station_locations, cfg, grid_east, grid_north, res_model,
                    rotation_angle, model_file, written, surface_dict, args, result >>

NextAvoid ==
    \/ EastPass
    \/ EastDone
    \/ NorthPass
    \/ NorthDone

SpecAvoid == InitAvoid /\ [][NextAvoid]_vars

\* mesh_rotation_angle of the model that writes: None, the 0 of __init__,
\* 30 degrees
RotationAngles == {None, Some(0), Some(30)}

\* the attributes Model() has without keyword arguments
DefaultConfig ==
    Config([cell_size |-> 500, pad_num |-> 3, pad |-> 7, ext |-> 100000],
           [z1_layer |-> 10, z_target_depth |-> 50000, z_bottom |-> 300000,
            n_layers |-> 30, pad_z |-> 4],
           "extent1", "loge")

\* a model constructed with the keyword mesh_rotation_angle
InitRotate ==
    /\ station_locations \in LifeStations
    /\ cfg \in {[c EXCEPT !.mesh_rotation_angle = a] :
                    c \in LifeConfigs, a \in RotationAngles}
    /\ Fresh
    /\ args = NoArgs

\* Model(): another object is constructed without station object or
\* keywords; the file the first one wrote stays on disk
NewModel ==
    /\ ops < MaxOps
    /\ ops' = ops + 1
    /\ station_locations' = NoStations
    /\ cfg' = DefaultConfig
    /\ grid_east' = None
    /\ grid_north' = None
    /\ grid_z' = None
    /\ grid_center' = None
    /\ res_model' = NoVolume
    /\ rotation_angle' = None
    /\ outcome' = Done("__init__", "ok", << >>)
    /\ surface_dict' = NoSurfaces
    /\ UNCHANGED << model_file, written, loop, args, result >>

NextRotate ==
    \/ MakeMesh
    \/ WriteModelFile("none")
    \/ NewModel
    \/ ReadModelFile

SpecRotate == InitRotate /\ [][NextRotate]_vars

\* a model with surfaces: the grids, the volume, the surfaces and the
\* assignments above and below them
InitSurface ==
    /\ station_locations \in LifeStations
    /\ cfg \in {c \in LifeConfigs : c.pad_method = "stretch" /\ c.res_scale = "loge"}
    /\ Fresh
    /\ args = NoArgs

NextSurface ==
    \/ MakeMesh
    \/ \E nodes \in SurfaceNodeArrays : SetNodesNorth(nodes)
    \/ \E nodes \in SurfaceNodeArrays : SetNodesZ(nodes)
    \/ WriteModelFile("none")
    \/ \E surfacename \in SurfaceNames : InterpolateElevation2(surfacename)
    \/ \E surfacename \in SurfaceNames, resistivity_value \in ResistivityValues,
          where \in {"above", "below"} :
              AssignResistivity(surfacename, resistivity_value, where)

SpecSurface == InitSurface /\ [][NextSurface]_vars

\* the node properties alone, over the node arrays
InitNodes ==
    /\ station_locations \in LifeStations
    /\ cfg \in {c \in LifeConfigs : c.pad_method = "stretch" /\ c.res_scale = "loge"}
    /\ Fresh
    /\ args = NoArgs

NextNodes ==
    \/ \E nodes \in NodeArrays : SetNodesEast(nodes)
    \/ \E nodes \in NodeArrays : SetNodesNorth(nodes)
    \/ \E nodes \in NodeArrays : SetNodesZ(nodes)

SpecNodes == InitNodes /\ [][NextNodes]_vars

-----------------------------------------------------------------------------
(* mesh_tools called directly *)

Returned(fn, status, value) == [fn |-> fn, status |-> status, value |-> value]

InitPad ==
    /\ station_locations = NoStations
    /\ cfg \in {c \in LifeConfigs : c.pad_method = "stretch" /\ c.res_scale = "loge"}
    /\ Fresh
    /\ args \in PadArgs

\* mesh_tools.get_padding_cells(cell_width, max_distance, num_cells, stretch)
CallGetPaddingCells ==
    /\ result' =
          IF args.num_cells = 1 \/ args.stretch.p = args.stretch.q
          THEN \* 1./(num_cells-1), or (1-stretch**(ii+1))/(1-stretch)
               Returned("get_padding_cells", "ZeroDivisionError", << >>)
          ELSE Returned("get_padding_cells", "ok",
                        get_padding_cells(args.cell_width, args.max_distance,
                                          args.num_cells, args.stretch))
    /\ UNCHANGED << station_locations, cfg, grid_east, grid_north, grid_z, grid_center,
                    res_model, rotation_angle, model_file, outcome, written, ops,
                    surface_dict, loop, args >>

\* mesh_tools.get_padding_cells2(cell_width, core_max, max_distance, num_cells)
CallGetPaddingCells2 ==
    /\ result' = Returned("get_padding_cells2", "ok",
                          get_padding_cells2(args.cell_width, args.core_max,
                                             args.max_distance, args.num_cells))
    /\ UNCHANGED << station_locations, cfg, grid_east, grid_north, grid_z, grid_center,
                    res_model, rotation_angle, model_file, outcome, written, ops,
                    surface_dict, loop, args >>

\* mesh_tools.get_padding_from_stretch(cell_width, pad_stretch, num_cells)
CallGetPaddingFromStretch ==
    /\ result' = Returned("get_padding_from_stretch", "ok",
                          get_padding_from_stretch(args.cell_width, args.stretch,
                                                   args.num_cells))
    /\ UNCHANGED << station_locations, cfg, grid_east, grid_north, grid_z, grid_center,
                    res_model, rotation_angle, model_file, outcome, written, ops,
                    surface_dict, loop, args >>

NextPad ==
    \/ CallGetPaddingCells
    \/ CallGetPaddingCells2
    \/ CallGetPaddingFromStretch

SpecPad == InitPad /\ [][NextPad]_vars

-----------------------------------------------------------------------------
(* Model.interpolate_elevation: the edge extension of the interpolated surface.
   interp_elev, the result of griddata, has one row per model_east point and
   one column per model_north point; it is an input here, rows and columns
   numbered from 1. *)

MaxAxis == 6
MaxPad == 2

\* interpolated surfaces whose cells all differ
InterpSurfaces(E, N) ==
    {[e \in 1..E |-> [n \in 1..N |-> 10 * e + n]],
     [e \in 1..E |-> [n \in 1..N |-> 7 * n - 100 * e]]}

ElevArgs ==
    UNION {[interp_elev : InterpSurfaces(E, N), pad : 1..MaxPad] :
              << E, N >> \in (1..MaxAxis) \X (1..MaxAxis)}

\* interp_elev[0:pad, pad:-pad] = interp_elev[pad, pad:-pad]
pad_east_low(a, pad) ==
    LET N == Len(a[1])
    IN  [e \in 1..Len(a) |-> [n \in 1..N |->
            IF e <= pad /\ n > pad /\ n <= N - pad THEN a[pad + 1][n] ELSE a[e][n]]]

\* interp_elev[-pad:, pad:-pad] = interp_elev[-pad - 1, pad:-pad]
pad_east_high(a, pad) ==
    LET E == Len(a)
        N == Len(a[1])
    IN  [e \in 1..E |-> [n \in 1..N |->
            IF e > E - pad /\ n > pad /\ n <= N - pad THEN a[E - pad][n] ELSE a[e][n]]]

\* interp_elev[:, 0:pad] = interp_elev[:, pad].repeat(pad).reshape(...)
pad_north_low(a, pad) ==
    [e \in 1..Len(a) |-> [n \in 1..Len(a[1]) |->
        IF n <= pad THEN a[e][pad + 1] ELSE a[e][n]]]

\* interp_elev[:, -pad:] = interp_elev[:, -pad - 1].repeat(pad).reshape(...)
pad_north_high(a, pad) ==
    LET N == Len(a[1])
    IN  [e \in 1..Len(a) |-> [n \in 1..N |->
            IF n > N - pad THEN a[e][N - pad] ELSE a[e][n]]]

\* the four assignments with the north edges extended first
extend_edges_north_first(a, pad) ==
    pad_east_high(pad_east_low(pad_north_high(pad_north_low(a, pad), pad), pad), pad)

\* the four assignments in the order of the code
extend_edges(a, pad) ==
    pad_north_high(pad_north_low(pad_east_high(pad_east_low(a, pad), pad), pad), pad)

\* interp_elev.T
transposed(a) == [n \in 1..Len(a[1]) |-> [e \in 1..Len(a) |-> a[e][n]]]

InitElev ==
    /\ station_locations = NoStations
    /\ cfg \in {c \in LifeConfigs : c.pad_method = "stretch" /\ c.res_scale = "loge"}
    /\ Fresh
    /\ args \in ElevArgs

\* interp_elev[pad, ...] and interp_elev[:, pad] raise IndexError on an axis of
\* pad points or fewer
CallInterpolateElevation ==
    /\ result = NoResult
    /\ result' =
          IF Len(args.interp_elev) <= args.pad \/ Len(args.interp_elev[1]) <= args.pad
          THEN Returned("interpolate_elevation", "IndexError", << >>)
          ELSE Returned("interpolate_elevation", "ok",
                        transposed(extend_edges(args.interp_elev, args.pad)))
    /\ UNCHANGED << station_locations, cfg, grid_east, grid_north, grid_z, grid_center,
                    res_model, rotation_angle, model_file, outcome, written, ops,
                    surface_dict, loop, args >>

NextElev == CallInterpolateElevation

SpecElev == InitElev /\ [][NextElev]_vars

-----------------------------------------------------------------------------
(* mesh_tools.make_log_increasing_array, one pass of its loop at a time *)

InitLog ==
    /\ station_locations = NoStations
    /\ cfg \in {c \in LifeConfigs : c.pad_method = "stretch" /\ c.res_scale = "loge"}
    /\ Fresh
    /\ args \in LogArgs

\* lines 116-122: the initial guess
CallMakeLogIncreasingArray ==
    /\ loop.pc = "idle"
    /\ loop' = [pc |-> "loop", counter |-> 0]
    /\ UNCHANGED << station_locations, cfg, grid_east, grid_north, grid_z, grid_center,
                    res_model, rotation_angle, model_file, outcome, written, ops,
                    surface_dict, args, result >>

\* lines 124-131: one test of the while condition and, if it holds, one pass
\* of the body
LogLoopPass ==
    /\ loop.pc = "loop"
    /\ loop.counter <= Ceiling + 1
    /\ sum_exceeds(args.z1_layer, args.target_depth, args.n_layers,
                   args.increment_factor, loop.counter)
    /\ LET counter == next_counter(args.n_layers, loop.counter)
       IN  loop' = [pc |-> IF over_ceiling(counter) THEN "break" ELSE "loop",
                    counter |-> counter]
    /\ UNCHANGED << station_locations, cfg, grid_east, grid_north, grid_z, grid_center,
                    res_model, rotation_angle, model_file, outcome, written, ops,
                    surface_dict, args, result >>

\* line 133: return log_z, after the while condition failed or after break
LogReturn ==
    /\ \/ loop.pc = "break"
       \/ /\ loop.pc = "loop"
          /\ ~sum_exceeds(args.z1_layer, args.target_depth, args.n_layers,
                          args.increment_factor, loop.counter)
    /\ loop' = [loop EXCEPT !.pc = "done"]
    /\ result' = Returned("make_log_increasing_array", "ok",
                          log_z_of(args, loop.counter))
    /\ UNCHANGED << station_locations, cfg, grid_east, grid_north, grid_z, grid_center,
                    res_model, rotation_angle, model_file, outcome, written, ops,
                    surface_dict, args >>

NextLog ==
    \/ CallMakeLogIncreasingArray
    \/ LogLoopPass
    \/ LogReturn

SpecLog == InitLog /\ [][NextLog]_vars

\* the interpreter keeps running the function once it is called
SpecLogFair == SpecLog /\ WF_vars(NextLog)

-----------------------------------------------------------------------------
(* Properties *)

\* the whole-number arithmetic is exact: half of every node sum is a whole
\* number, and so is .02 * cell_size
Exact ==
    /\ grid_east # None => SumSeq(nodes_get(grid_east)) % 2 = 0
    /\ grid_north # None => SumSeq(nodes_get(grid_north)) % 2 = 0
    /\ cfg.cell_size_east % 50 = 0
    /\ cfg.cell_size_north % 50 = 0

\* make_mesh has returned normally
MeshMade == outcome.op = "make_mesh" /\ outcome.status = "ok"

\* read_model_file has returned normally
FileRead == outcome.op = "read_model_file" /\ outcome.status = "ok"

\* every station coordinate is at least tol away from every line of the grid
ClearOf(grid, stations, tol) ==
    \A i \in 1..Len(stations) : \A k \in 1..Len(grid) :
        Abs(stations[i] - grid[k]) >= tol

\* C1: after make_mesh, every station east coordinate is at least
\* .02*cell_size_east away from every east grid line, and every station north
\* coordinate at least .02*cell_size_north away from every north grid line.
C1_StationsClearOfLines ==
    MeshMade =>
        /\ ClearOf(grid_east, station_locations.rel_east, tolerance(cfg.cell_size_east))
        /\ ClearOf(grid_north, station_locations.rel_north,
                   tolerance(cfg.cell_size_north))

\* C2: after make_mesh with any pad_method, grid_east, grid_north and grid_z
\* are strictly increasing, so that no cell has zero or negative width.
C2_GridsStrictlyIncreasing ==
    MeshMade =>
        /\ StrictlyIncreasing(grid_east)
        /\ StrictlyIncreasing(grid_north)
        /\ StrictlyIncreasing(grid_z)

\* C3: after every operation that returns normally the resistivity volume
\* exists and its shape is (len(nodes_north), len(nodes_east), len(nodes_z)).
C3_VolumeMatchesNodes ==
    (outcome.op # "__init__" /\ outcome.status = "ok") =>
        /\ res_model # NoVolume
        /\ GridsDefined
        /\ res_model.shape = node_shape(grid_north, grid_east, grid_z)

\* the grid a horizontal nodes setter must leave for nodes
CentredOn(grid, nodes) ==
    /\ nodes_get(grid) = nodes
    /\ Len(grid) = Len(nodes) + 1
    /\ 2 * grid[1] = -SumSeq(nodes)
    /\ 2 * grid[Len(grid)] = SumSeq(nodes)

\* C4: a nodes property assigned an array of positive widths returns that
\* array; the grid has one line more than there are nodes, runs from -sum/2
\* to +sum/2 on the east and north axes and from 0 to the sum in depth.
C4_NodesRoundTrip ==
    /\ outcome.op = "nodes_east" => CentredOn(grid_east, outcome.arg)
    /\ outcome.op = "nodes_north" => CentredOn(grid_north, outcome.arg)
    /\ outcome.op = "nodes_z" =>
          /\ nodes_get(grid_z) = outcome.arg
          /\ Len(grid_z) = Len(outcome.arg) + 1
          /\ grid_z[1] = 0
          /\ grid_z[Len(grid_z)] = SumSeq(outcome.arg)

\* an array of two different widths went into nodes_north and came back, with
\* the other two axes assigned as well
C4_Witness ==
    /\ outcome.op = "nodes_north"
    /\ outcome.arg = << 400, 200 >>
    /\ grid_north = << -300, 100, 300 >>
    /\ nodes_get(grid_north) = << 400, 200 >>
    /\ grid_east # None
    /\ grid_z # None

\* C5: read_model_file of the file write_model_file produced stores at every
\* index (n, e, z) the value res_model held at (n, e, z) when it was written.
C5_IndexRoundTrip ==
    FileRead =>
        \A t \in Cells(written.shape) \cap Cells(res_model.shape) :
            res_model.val[t] = written.val[t]

\* C6: for every res_scale, the transform read_model_file selects from the
\* scale token undoes the transform write_model_file applied: every value
\* read back is in linear Ohm-m and is a value of the volume written, and a
\* volume of the shape of the node counts is read back as it was written.
C6_ScaleRoundTrip ==
    FileRead =>
        /\ \A t \in Cells(res_model.shape) :
              /\ res_model.val[t].f = << >>
              /\ \E u \in Cells(written.shape) : written.val[u] = res_model.val[t]
        /\ res_model.shape = written.shape => res_model = written

\* a volume of different values was written on a logarithmic scale and read
\* back
C6_Witness ==
    /\ FileRead
    /\ cfg.res_scale = "log"
    /\ model_file[2][5] = "LOG"
    /\ written = coded_volume(written.shape)
    /\ res_model = written

\* C7: for num_cells >= 2 and stretch > 1, get_padding_cells returns num_cells
\* values, each strictly greater than the one before.
C7_PaddingCellsIncreasing ==
    (/\ result.fn = "get_padding_cells"
     /\ args.num_cells >= 2
     /\ args.stretch.p > args.stretch.q) =>
        /\ result.status = "ok"
        /\ Len(result.value) = args.num_cells
        /\ StrictlyIncreasing(result.value)

\* C8: get_padding_cells2 returns num_cells strictly increasing values, the
\* first of them not negative.
C8_PaddingCells2Increasing ==
    result.fn = "get_padding_cells2" =>
        /\ result.status = "ok"
        /\ Len(result.value) = args.num_cells
        /\ StrictlyIncreasing(result.value)
        /\ result.value[1] >= 0

\* C9: get_padding_from_stretch returns num_cells values, value i the sum of
\* the first i widths cell_width*pad_stretch^j rounded to the hundred, and the
\* values are strictly increasing.
C9_PaddingFromStretchIncreasing ==
    result.fn = "get_padding_from_stretch" =>
        /\ result.status = "ok"
        /\ Len(result.value) = args.num_cells
        /\ \A i \in 1..args.num_cells :
              result.value[i] =
                  SumSeq([j \in 1..i |->
                             RoundTo(args.cell_width * args.stretch.p ^ (j - 1),
                                     args.stretch.q ^ (j - 1), 100)])
        /\ StrictlyIncreasing(result.value)

\* C10: after make_mesh the number of vertical cells is n_layers.
C10_LayerCount ==
    MeshMade => Len(nodes_get(grid_z)) = cfg.n_layers

\* the step is a call of assign_resistivity_from_surfacedata
Assigning == ops' = ops + 1 /\ outcome'.op = "assign_resistivity_from_surfacedata"

\* the surface 'topography' exists and is at sea level everywhere
FlatTopography ==
    /\ surface_dict.defined
    /\ "topography" \in surface_dict.keys
    /\ \A t \in DOMAIN surface_dict.data["topography"].val :
          surface_dict.data["topography"].val[t] = 0

\* no grid line of the depth axis is above zero depth and every cell centre
\* is below it
DepthsPositive ==
    /\ grid_z # None
    /\ \A k \in 1..Len(grid_z) : grid_z[k] >= 0
    /\ \A k \in 1..(Len(grid_z) - 1) : gcz2(grid_z)[k] > 0

\* C11: with every depth grid line at or below zero depth and 'topography' at
\* 0 everywhere, assigning any value above 'topography' leaves every cell of
\* the resistivity volume as it was.
C11_FlatTopographyKeepsVolume ==
    [][(/\ Assigning
        /\ outcome'.arg.surfacename = "topography"
        /\ outcome'.arg.where = "above"
        /\ FlatTopography
        /\ DepthsPositive) => res_model' = res_model]_vars

\* a value was assigned above a flat topography in a model that has a volume
C11_Witness ==
    /\ outcome.op = "assign_resistivity_from_surfacedata"
    /\ outcome.status = "ok"
    /\ outcome.arg.surfacename = "topography"
    /\ outcome.arg.where = "above"
    /\ outcome.arg.resistivity_value = Air
    /\ FlatTopography
    /\ DepthsPositive
    /\ res_model # NoVolume

\* make_log_increasing_array has returned
LogReturned == result.fn = "make_log_increasing_array" /\ result.status = "ok"

\* np.sum of the returned array > target_depth
ReturnedSumExceeds ==
    sum_exceeds(result.value.z1_layer, result.value.target_depth,
                result.value.n_layers, result.value.increment_factor,
                result.value.counter)

\* C12 as stated: the array returned by make_log_increasing_array never sums
\* to more than target_depth, whatever the inputs and also when the iteration
\* ceiling was reached.
C12_SumNeverExceedsTarget == LogReturned => ~ReturnedSumExceeds

\* C12 amended: the array returned by make_log_increasing_array sums to at most
\* target_depth whenever the loop ended before its counter passed the iteration
\* ceiling.
C12_SumWithinTargetBelowCeiling ==
    (LogReturned /\ result.value.counter <= Ceiling) => ~ReturnedSumExceeds

\* the loop shrank the maximum at least once and then returned below the ceiling
C12_Witness ==
    /\ LogReturned
    /\ result.value.counter >= 1
    /\ result.value.counter <= Ceiling
    /\ result.value.n_layers >= 2

\* C13: for target_depth > z1_layer and n_layers >= 2 the array returned by
\* make_log_increasing_array is strictly increasing, has exactly n_layers
\* elements and starts with z1_layer.
C13_LogIncreasing ==
    (LogReturned /\ args.target_depth > args.z1_layer /\ args.n_layers >= 2) =>
        /\ log_z_increasing(result.value)
        /\ log_z_size(result.value) = args.n_layers
        /\ log_z_first(result.value) = args.z1_layer

\* C14: make_log_increasing_array always terminates: the loop body runs at most
\* Ceiling + 1 times, the call ends by returning an array and never stays in
\* the loop, and when the ceiling is passed the array returned is the last
\* trial array.
C14_Terminates ==
    /\ [](loop.counter <= Ceiling + 1)
    /\ <>[](loop.pc = "done" /\ LogReturned)
    /\ []((loop.pc = "done" /\ loop.counter > Ceiling) =>
             (LogReturned /\ result.value = log_z_of(args, Ceiling + 1)))

\* the ceiling was passed and the function returned
C14_Witness == loop.pc = "done" /\ loop.counter = Ceiling + 1 /\ LogReturned

\* clamp(i, lo, hi)
clamp(i, lo, hi) == IF i < lo THEN lo ELSE IF i > hi THEN hi ELSE i

\* C15: for pad >= 1 and more than 2*pad points on each axis the array returned
\* by interpolate_elevation has one row per model_north point and one column
\* per model_east point, and each of its values out[n, e] is the value of the
\* interpolated surface at the nearest interior point,
\* I[clamp(e, pad, E-1-pad), clamp(n, pad, N-1-pad)] (indices from 0; from 1
\* here).
C15_EdgeExtension ==
    LET I == args.interp_elev
        pad == args.pad
        E == Len(I)
        N == Len(I[1])
        out == result.value
    IN  (result.fn = "interpolate_elevation" /\ E > 2 * pad /\ N > 2 * pad) =>
            /\ result.status = "ok"
            /\ Len(out) = N
            /\ \A n \in 1..N :
                  /\ Len(out[n]) = E
                  /\ \A e \in 1..E :
                        out[n][e] = I[clamp(e, pad + 1, E - pad)][clamp(n, pad + 1, N - pad)]

\* a surface with two padding rows and columns and a 2 x 1 interior was extended
C15_Witness ==
    /\ result.fn = "interpolate_elevation"
    /\ result.status = "ok"
    /\ args.pad = 2
    /\ Len(args.interp_elev) = 6
    /\ Len(args.interp_elev[1]) = 5
    /\ result.value[1][1] = args.interp_elev[3][3]
    /\ result.value[5][6] = args.interp_elev[4][3]

\* the file holds a 3-field line after its depth block
HasCentreLine == \E k \in 11..Len(model_file) : Len(model_file[k]) = 3

\* C16: read_model_file on a freshly constructed Model succeeds for every
\* combination of lines after the blank line that closes the last depth block,
\* and without a centre line the grid centre becomes
\* (-sum(nodes_north)/2, -sum(nodes_east)/2, 0).
C16_FreshReadSucceeds ==
    (outcome.op = "read_model_file" /\ ops = 1 /\ Len(model_file) >= 11) =>
        /\ outcome.status = "ok"
        /\ ~HasCentreLine =>
              grid_center = << -(SumSeq(model_file[3]) \div 2),
                               -(SumSeq(model_file[4]) \div 2), 0 >>

\* C17: after read_model_file, grid_north is the zero-centred grid of
\* nodes_north shifted by grid_center[0] + sum(nodes_north)/2 and grid_east
\* likewise with grid_center[1], so that the first north line is grid_center[0]
\* and the first east line grid_center[1]; the node widths are those of the
\* file.
C17_GridsRecentred ==
    FileRead =>
        LET nodes_north == model_file[3]
            nodes_east == model_file[4]
        IN  /\ \A k \in 1..Len(grid_north) :
                  grid_north[k] = nodes_set_horizontal(nodes_north)[k]
                                  + grid_center[1] + SumSeq(nodes_north) \div 2
            /\ \A k \in 1..Len(grid_east) :
                  grid_east[k] = nodes_set_horizontal(nodes_east)[k]
                                 + grid_center[2] + SumSeq(nodes_east) \div 2
            /\ grid_north[1] = grid_center[1]
            /\ grid_east[1] = grid_center[2]
            /\ nodes_get(grid_north) = nodes_north
            /\ nodes_get(grid_east) = nodes_east

\* a file whose declared centre is not the geometric centre of its nodes was
\* read: both grids were shifted, in opposite directions
C17_Witness ==
    /\ FileRead
    /\ grid_center = << -500, -700, 0 >>
    /\ grid_north = << -500, -100, 100, 300, 700 >>
    /\ grid_east = << -700, -300, -100, 100, 500 >>

\* the step is a call of make_mesh
MakingMesh == ops' = ops + 1 /\ outcome'.op = "make_mesh"

\* the station set is None or empty, or pad_method is not a known strategy
Unusable ==
    \/ ~station_locations.defined
    \/ station_locations.rel_east = << >>
    \/ cfg.pad_method \notin PadMethods

\* C18: make_mesh on a model whose station set is None or empty, or whose
\* pad_method is not a known strategy, ends in an error and leaves grid_east,
\* grid_north and grid_z, and so the nodes, as they were.
C18_FailedMeshKeepsGrids ==
    [][(MakingMesh /\ Unusable) =>
           /\ outcome'.status # "ok"
           /\ grid_east' = grid_east
           /\ grid_north' = grid_north
           /\ grid_z' = grid_z]_vars

\* make_mesh failed on an unknown pad_method after all three grids had been set
C18_Witness ==
    /\ outcome.op = "make_mesh"
    /\ outcome.status = "UnboundLocalError"
    /\ GridsDefined

\* the step is a call of add_topography_to_model2
AddingTopography == ops' = ops + 1 /\ outcome'.op = "add_topography_to_model2"

\* the volume, grid_z and grid_center are left as they were
ModelKept ==
    /\ res_model' = res_model
    /\ grid_z' = grid_z
    /\ grid_center' = grid_center

\* C19: assign_resistivity_from_surfacedata with a surface name that is not a
\* key of surface_dict, and add_topography_to_model2 with n_airlayers > 0 when
\* no surface is stored under 'topography', both end in an error and leave
\* res_model, grid_z and grid_center as they were.
C19_MissingSurfaceFails ==
    [][/\ (/\ Assigning
            /\ (~surface_dict.defined
                 \/ outcome'.arg.surfacename \notin surface_dict.keys))
           => (outcome'.status # "ok" /\ ModelKept)
       /\ (/\ AddingTopography
            /\ cfg.n_airlayers.set
            /\ cfg.n_airlayers.val # None
            /\ cfg.n_airlayers.val[1] > 0
            /\ (~surface_dict.defined \/ "topography" \notin surface_dict.keys))
           => (outcome'.status # "ok" /\ ModelKept)]_vars

\* add_topography_to_model2 with one air layer failed on a model that has its
\* grids, its volume and a surface under another name
C19_Witness ==
    /\ outcome.op = "add_topography_to_model2"
    /\ outcome.status = "KeyError"
    /\ cfg.n_airlayers = SetTo(Some(1))
    /\ surface_dict.keys = {"basement"}
    /\ res_model # NoVolume
    /\ GridsDefined

\* the volume does not fit grid_z or the surface named in the call
ShapesInconsistent ==
    \/ res_model.shape[3] # Len(grid_z) - 1
    \/ << res_model.shape[1], res_model.shape[2] >>
           # surface_dict.data[outcome'.arg.surfacename].shape

\* C20: assign_resistivity_from_surfacedata ends in an error, without having
\* changed any cell of the volume, whenever the depth of the volume is not
\* len(grid_z) - 1 or its horizontal shape is not the shape of the named
\* surface.
C20_ShapeMismatchFails ==
    [][(/\ Assigning
        /\ grid_z # None
        /\ res_model # NoVolume
        /\ surface_dict.defined
        /\ outcome'.arg.surfacename \in surface_dict.keys
        /\ ShapesInconsistent)
       => (outcome'.status # "ok" /\ res_model' = res_model)]_vars

Assigned(surfacename, where) ==
    /\ Assigning
    /\ outcome'.status = "ok"
    /\ outcome'.arg.surfacename = surfacename
    /\ outcome'.arg.where = where

\* twice the depth of the named surface in column (j, i), positive down
depth2(surfacename, t) == -2 * surface_dict.data[surfacename].val[<< t[1], t[2] >>]

\* twice the depth one metre above the highest point of the topography
limit2 == 2 * (amin(negated(surface_dict.data["topography"])) - 1)

\* C22 as stated: after assign_resistivity_from_surfacedata('topography', v,
\* where='above') a cell with centre depth d under a surface of depth t holds
\* 0.3 if 0 < d <= t, holds v if d <= t and d <= 0 however far above the
\* highest point of the topography it lies, and holds its previous value if
\* d > t.
C22_AboveTopography ==
    [][Assigned("topography", "above") =>
          \A t \in Cells(res_model.shape) :
              LET d2 == gcz2(grid_z)[t[3]]
                  t2 == depth2("topography", t)
              IN  /\ (0 < d2 /\ d2 <= t2) => res_model'.val[t] = SeaWater
                  /\ (d2 <= t2 /\ d2 <= 0) =>
                        res_model'.val[t] = outcome'.arg.resistivity_value
                  /\ d2 > t2 => res_model'.val[t] = res_model.val[t]]_vars

\* C22 amended: the cell holds v if d <= t and d <= 0 only when it lies less
\* than one metre above the highest point of the topography; a cell at least
\* one metre above that point keeps its previous value.
C22_AboveTopographyBelowLimit ==
    [][Assigned("topography", "above") =>
          \A t \in Cells(res_model.shape) :
              LET d2 == gcz2(grid_z)[t[3]]
                  t2 == depth2("topography", t)
              IN  /\ (0 < d2 /\ d2 <= t2) => res_model'.val[t] = SeaWater
                  /\ (d2 <= t2 /\ d2 <= 0 /\ d2 > limit2) =>
                        res_model'.val[t] = outcome'.arg.resistivity_value
                  /\ (d2 <= t2 /\ d2 <= 0 /\ d2 <= limit2) =>
                        res_model'.val[t] = res_model.val[t]
                  /\ d2 > t2 => res_model'.val[t] = res_model.val[t]]_vars

\* air was assigned above a topography of 20 m and -25 m on a grid that
\* starts 60 m above sea level: in the second column the cell centred 10 m
\* above sea level took it, the cell centred 40 m above sea level, more than
\* a metre above the highest point, did not, and the cell centred 5 m under
\* sea level became sea water
C22_Witness ==
    /\ outcome.op = "assign_resistivity_from_surfacedata"
    /\ outcome.status = "ok"
    /\ outcome.arg = [surfacename |-> "topography", resistivity_value |-> Air,
                      where |-> "above"]
    /\ ops = 1
    /\ grid_z = << -60, -20, 0, 10, 30 >>
    /\ surface_dict.data["topography"].val[<< 1, 1 >>] = 20
    /\ surface_dict.data["topography"].val[<< 1, 2 >>] = -25
    /\ res_model.val[<< 1, 2, 2 >>] = Air
    /\ res_model.val[<< 1, 2, 1 >>] = coded_volume(res_model.shape).val[<< 1, 2, 1 >>]
    /\ res_model.val[<< 1, 2, 3 >>] = SeaWater

\* C23: when a 'topography' surface exists and another surface is assigned
\* with where='above', no cell whose centre is at or above the topography
\* (d <= -topography[j, i]) is modified, and a column in which the surface
\* lies at or above the topography is not modified at all.
C23_AboveKeepsAir ==
    [][(Assigned("basement", "above") /\ "topography" \in surface_dict.keys) =>
          \A t \in Cells(res_model.shape) :
              (\/ gcz2(grid_z)[t[3]] <= depth2("topography", t)
               \/ depth2("basement", t) <= depth2("topography", t))
              => res_model'.val[t] = res_model.val[t]]_vars

\* a basement 15 m under sea level in the first column and 15 m above it in
\* the second was assigned under a topography of 5 m: the cell between them
\* in the first column took the value, the second column kept its values
C23_Witness ==
    /\ outcome.op = "assign_resistivity_from_surfacedata"
    /\ outcome.status = "ok"
    /\ outcome.arg = [surfacename |-> "basement", resistivity_value |-> Lin(1000),
                      where |-> "above"]
    /\ ops = 1
    /\ grid_z = << -60, -20, 0, 10, 30 >>
    /\ "topography" \in surface_dict.keys
    /\ surface_dict.data["topography"].val = [t \in (1..1) \X (1..2) |-> 5]
    /\ surface_dict.data["basement"].val[<< 1, 2 >>] = 15
    /\ res_model.val[<< 1, 1, 3 >>] = Lin(1000)
    /\ \A k \in 1..4 :
          res_model.val[<< 1, 2, k >>] = coded_volume(res_model.shape).val[<< 1, 2, k >>]

\* C24 as stated: with where='below' the cells whose centre is strictly deeper
\* than the surface are set to resistivity_value and every other cell is left
\* as it was, for every surface name, 'topography' included.
C24_BelowExactly ==
    [][(\E n \in SurfaceNames : Assigned(n, "below")) =>
          \A t \in Cells(res_model.shape) :
              res_model'.val[t] =
                  IF gcz2(grid_z)[t[3]] > depth2(outcome'.arg.surfacename, t)
                  THEN outcome'.arg.resistivity_value
                  ELSE res_model.val[t]]_vars

\* C24 amended: with where='below' the cells whose centre is strictly deeper
\* than the surface are set to resistivity_value; every other cell is left as
\* it was, except that for 'topography' the cells between sea level and the
\* surface (0 < d <= t) are set to sea water, 0.3.
C24_BelowAndSea ==
    [][(\E n \in SurfaceNames : Assigned(n, "below")) =>
          \A t \in Cells(res_model.shape) :
              LET d2 == gcz2(grid_z)[t[3]]
                  s2 == depth2(outcome'.arg.surfacename, t)
              IN  res_model'.val[t] =
                      IF d2 > s2 THEN outcome'.arg.resistivity_value
                      ELSE IF outcome'.arg.surfacename = "topography" /\ d2 > 0
                      THEN SeaWater
                      ELSE res_model.val[t]]_vars

\* a value was assigned below a topography at sea level in the first column
\* and 25 m under it in the second: the deepest cell of the first column took
\* the value, that of the second became sea water
C24_Witness ==
    /\ outcome.op = "assign_resistivity_from_surfacedata"
    /\ outcome.status = "ok"
    /\ outcome.arg = [surfacename |-> "topography", resistivity_value |-> Lin(1000),
                      where |-> "below"]
    /\ ops = 1
    /\ grid_z = << 0, 10, 30 >>
    /\ surface_dict.data["topography"].val[<< 1, 1 >>] = 0
    /\ surface_dict.data["topography"].val[<< 1, 2 >>] = -25
    /\ res_model.val[<< 1, 1, 2 >>] = Lin(1000)
    /\ res_model.val[<< 1, 2, 2 >>] = SeaWater

\* add_topography_to_model2 returned normally on a model with air layers
AirLayersAdded ==
    /\ AddingTopography
    /\ outcome'.status = "ok"
    /\ cfg.n_airlayers.set
    /\ cfg.n_airlayers.val # None
    /\ cfg.n_airlayers.val[1] > 0

\* cell t of the new volume is one the reclassification of the topography
\* sets: its centre is at or above the surface and either under sea level or
\* less than a metre above the highest point
Reclassified(t) ==
    LET d2 == gcz2(grid_z')[t[3]]
    IN  /\ d2 <= depth2("topography", t)
        /\ (d2 > 0 \/ d2 > limit2)

NoAirLayersAsked ==
    /\ AddingTopography
    /\ cfg.n_airlayers \in {SetTo(None), SetTo(Some(0))}
    /\ GridsDefined
    /\ grid_center # None
    /\ res_model # NoVolume
    /\ res_model.shape = node_shape(grid_north, grid_east, grid_z)
    /\ surface_dict.defined
    /\ "topography" \in surface_dict.keys
    /\ surface_dict.data["topography"].shape
           = << res_model.shape[1], res_model.shape[2] >>

\* C26: add_topography_to_model2 with n_airlayers 0 or None returns normally,
\* leaves grid_z (and so nodes_z) as it was, and keeps every value of the
\* volume at its own depth index except in the cells between sea level and
\* the topography, which become sea water.
C26_NoAirLayersCompletes ==
    [][NoAirLayersAsked =>
          /\ outcome'.status = "ok"
          /\ grid_z' = grid_z
          /\ res_model'.shape = res_model.shape
          /\ \A t \in Cells(res_model.shape) :
                LET d2 == gcz2(grid_z)[t[3]]
                IN  res_model'.val[t] =
                        IF d2 > 0 /\ d2 <= depth2("topography", t)
                        THEN SeaWater
                        ELSE res_model.val[t]]_vars

\* the lines of an inner grid are cell_size apart and reach from the low
\* rounded edge, or beyond it, to the high rounded edge, or beyond it
InnerCovers(inner, low, high, cell_size) ==
    /\ inner # << >>
    /\ \A k \in 1..(Len(inner) - 1) : inner[k + 1] - inner[k] = cell_size
    /\ inner[1] <= low
    /\ inner[Len(inner)] >= high

\* C27: in make_mesh the inner regular grid of each horizontal axis has the
\* constant spacing cell_size, its first line is at or outside the rounded
\* west (south) edge and its last line at or outside the rounded east (north)
\* edge.
C27_InnerGridCoversEdges ==
    MeshMade =>
        LET west == edge_low(station_locations.rel_east, cfg.pad_num, cfg.cell_size_east)
            east == edge_high(station_locations.rel_east, cfg.pad_num, cfg.cell_size_east)
            south == edge_low(station_locations.rel_north, cfg.pad_num,
                              cfg.cell_size_north)
            north == edge_high(station_locations.rel_north, cfg.pad_num,
                               cfg.cell_size_north)
        IN  /\ InnerCovers(inner_east_of(west, east, cfg.cell_size_east),
                           west, east, cfg.cell_size_east)
            /\ InnerCovers(inner_north_of(south, north, cfg.cell_size_north),
                           south, north, cfg.cell_size_north)

\* twice the padded extremes of an axis before rounding
low2(coords, cell_size) == 2 * MinSeq(coords) - 3 * cfg.pad_num * cell_size

high2(coords, cell_size) == 2 * MaxSeq(coords) + 3 * cfg.pad_num * cell_size

\* the edge is the multiple of 100 nearest to the padded extreme, the even
\* multiple when the extreme is halfway between two
Nearest100(edge, extreme2) ==
    /\ edge % 100 = 0
    /\ Abs(2 * edge - extreme2) <= 100
    /\ (Abs(2 * edge - extreme2) = 100 => (edge \div 100) % 2 = 0)

\* C28: the four extremes of make_mesh are multiples of 100 rounded outward:
\* west and south are at most the least station coordinate minus
\* pad_num*1.5*cell_size, east and north at least the greatest station
\* coordinate plus pad_num*1.5*cell_size.
C28_EdgesRoundedOutward ==
    MeshMade =>
        LET re == station_locations.rel_east
            rn == station_locations.rel_north
            ce == cfg.cell_size_east
            cn == cfg.cell_size_north
        IN  /\ 2 * edge_low(re, cfg.pad_num, ce) <= low2(re, ce)
            /\ 2 * edge_high(re, cfg.pad_num, ce) >= high2(re, ce)
            /\ 2 * edge_low(rn, cfg.pad_num, cn) <= low2(rn, cn)
            /\ 2 * edge_high(rn, cfg.pad_num, cn) >= high2(rn, cn)
            /\ \A e \in {edge_low(re, cfg.pad_num, ce), edge_high(re, cfg.pad_num, ce),
                          edge_low(rn, cfg.pad_num, cn), edge_high(rn, cfg.pad_num, cn)} :
                  e % 100 = 0

\* C28 with the rounding np.round does: each of the four extremes of make_mesh
\* is the multiple of 100 nearest to the station extreme widened by
\* pad_num*1.5*cell_size, at most 50 away from it on either side, and the
\* even multiple when the widened extreme ends in 50.
C28_EdgesRoundedToNearest ==
    MeshMade =>
        LET re == station_locations.rel_east
            rn == station_locations.rel_north
            ce == cfg.cell_size_east
            cn == cfg.cell_size_north
        IN  /\ Nearest100(edge_low(re, cfg.pad_num, ce), low2(re, ce))
            /\ Nearest100(edge_high(re, cfg.pad_num, ce), high2(re, ce))
            /\ Nearest100(edge_low(rn, cfg.pad_num, cn), low2(rn, cn))
            /\ Nearest100(edge_high(rn, cfg.pad_num, cn), high2(rn, cn))

\* a mesh was made for one station at north 250 and east 1019 without
\* padding allowance: both north edges are 200, both east edges 1000
C28_Witness ==
    /\ MeshMade
    /\ cfg.pad_num = 0
    /\ station_locations.rel_north = << 250 >>
    /\ station_locations.rel_east = << 1019 >>
    /\ edge_low(station_locations.rel_north, cfg.pad_num, cfg.cell_size_north) = 200
    /\ edge_high(station_locations.rel_north, cfg.pad_num, cfg.cell_size_north) = 200
    /\ edge_low(station_locations.rel_east, cfg.pad_num, cfg.cell_size_east) = 1000
    /\ grid_north # None

\* what one pass of a station loop may do to a grid whose lines were at pre
\* before the loop: nothing when no line is closer than tol to the station s,
\* and otherwise move only lines that are still where they were before the
\* loop, by tol, to the side away from s
PassMovesOnce(before, after, pre, s, tol) ==
    /\ near_lines(before, s, tol) = {} => after = before
    /\ \A k \in 1..Len(before) :
          after[k] # before[k] =>
              /\ before[k] = pre[k]
              /\ Abs(after[k] - pre[k]) = tol
              /\ s < before[k] => after[k] > before[k]
              /\ s > before[k] => after[k] < before[k]

\* every line is where it was before the loop, or tol away from there
WithinOneMove(grid, pre, tol) ==
    \A k \in 1..Len(grid) : grid[k] = pre[k] \/ Abs(grid[k] - pre[k]) = tol

\* C29: in the station loops of make_mesh a grid line is moved at most once:
\* a pass moves only a line that is still at its position before the loop,
\* by .02*cell_size to the side away from the station of the pass, a pass
\* whose station has no line within .02*cell_size changes nothing, and so
\* every line ends at its position before the loop or .02*cell_size from it.
C29_LinesMovedOnce ==
    [][/\ (loop.pc = "east" /\ loop'.pc = "east") =>
            /\ PassMovesOnce(grid_east, grid_east',
                             assembled_east(station_locations, cfg),
                             sorted(station_locations.rel_east)[loop'.counter],
                             tolerance(cfg.cell_size_east))
            /\ WithinOneMove(grid_east', assembled_east(station_locations, cfg),
                             tolerance(cfg.cell_size_east))
       /\ (loop.pc = "north" /\ loop'.pc = "north") =>
            /\ PassMovesOnce(grid_north, grid_north',
                             assembled_north(station_locations, cfg),
                             sorted(station_locations.rel_north)[loop'.counter],
                             tolerance(cfg.cell_size_north))
            /\ WithinOneMove(grid_north', assembled_north(station_locations, cfg),
                             tolerance(cfg.cell_size_north))]_vars

\* the loops of SpecAvoid leave the grids make_mesh leaves
AvoidAgreesWithMakeMesh ==
    (outcome.op = "make_mesh") =>
        /\ grid_east = make_grid_east(station_locations, cfg)
        /\ grid_north = make_grid_north(station_locations, cfg)

\* the last line of a model file
final_line(file) == file[Len(file)]

\* a model that was just constructed reads the file
ReadingNew ==
    /\ outcome.op = "__init__"
    /\ outcome'.op = "read_model_file"
    /\ outcome'.status = "ok"

\* a model that has just read a file writes it again
WritingAfterRead ==
    /\ outcome = Done("read_model_file", "ok", << >>)
    /\ outcome'.op = "write_model_file"
    /\ outcome'.status = "ok"

\* C30: the rotation angle survives writing and reading: a new Model that
\* reads a written file has as mesh_rotation_angle the angle on the final
\* line of the file, which is the angle of the model that wrote it (0 when
\* that was None), and when it writes the file again the final line is the
\* same.
C30_RotationSurvives ==
    [][/\ ReadingNew =>
            /\ Len(final_line(model_file)) = 1
            /\ cfg'.mesh_rotation_angle = Some(final_line(model_file)[1])
       /\ WritingAfterRead => final_line(model_file') = final_line(model_file)]_vars


====
